---- MODULE Spec2Model ----
(***************************************************************************)
(* A model of the securechat core: the key hierarchy (crypto.rs), the      *)
(* message envelope (crypto.rs), the DoubleRatchet state (crypto.rs) and   *)
(* the account operations of the SecureChat facade over SecureStorage      *)
(* (lib.rs, storage.rs).                                                   *)
(*                                                                         *)
(* Cryptographic primitives are modelled symbolically.  A byte string is a *)
(* tagged tuple; two byte strings are equal exactly when the tuples are.   *)
(* Values drawn from the CSPRNG are Rand(i) for a counter i that never     *)
(* repeats.  Where a primitive ignores part of its input (X25519 ignores   *)
(* bit 255 of a public key, RFC 7748 section 5) the model keeps that part  *)
(* as a separate component, so that "different bytes" and "different       *)
(* point" are different notions.                                           *)
(***************************************************************************)
EXTENDS Integers, Sequences, FiniteSets, TLC

(***************************************************************************)
(* Bounds of the model.                                                    *)
(***************************************************************************)
\* envelopes encrypted in one behaviour of the envelope specification
MaxEnvelopes == 1
\* number of MessageKeyPair holders in the envelope specification
NParties == 3
\* length in bits of a plaintext / signed message
MsgBits == 2
\* number of bit positions of a ciphertext or signature that may be flipped
FlipBits == 1

\* number of IdentityKeyPairs in the identity specifications
NIdents == 2
\* number of master keys in the identity sealing specification
NMasterKeys == 2
\* identity seals made in one behaviour of the identity sealing specification
MaxSeals == 2

\* number of shared secrets a ratchet may be initialized from
NSharedSecrets == 2
\* number of remote DH public keys a ratchet step may be given
NRemoteKeys == 2
\* ratchet steps of one DoubleRatchet in one behaviour
MaxSteps == 2
\* entries a caller buffers in skipped_message_keys of one DoubleRatchet
MaxSkipped == 2

\* number of passwords a user may type
NPasswords == 2
\* CSPRNG draws available to one behaviour of the account specification
MaxDraws == 25
\* CSPRNG draws available to one behaviour of the chat specification
MaxChatDraws == 18
\* messages one peer encrypts for the other in a session
MaxSent == 2
\* deliveries of those messages to the other peer
MaxDeliveries == 3

\* protocol messages published on the topic in one behaviour
MaxPublished == 2
\* gossipsub messages handled in one behaviour
MaxReceived == 2

\* CSPRNG draws available to one behaviour of the store specification
MaxStoreDraws == 7

\* CSPRNG draws available to one behaviour of the desktop specification
MaxDesktopDraws == 28

\* tasks that call get_or_create_conversation on one SecureChat
NTasks == 2
\* calls one task makes
MaxCalls == 2
\* CSPRNG draws available to one behaviour of the conversation specification
MaxConvDraws == 12
\* ChatEvents, NetworkEvents or commands a channel holds before send waits
ChannelSlots == 1
\* swarm events given to the network task in one behaviour
MaxSwarmEvents == 4
\* NetworkEvents sent to network_event_loop in one behaviour
MaxNetEvents == 2
\* start_network calls on one SecureChat in one behaviour
MaxStarts == 3
\* conversations, message identifiers and timestamps of the stored messages,
\* and the largest limit passed to get_messages
NConversations == 2
NMessageIds == 2
NTimestamps == 2
MaxLimit == 2

VARIABLES
    rng,        \* number of CSPRNG draws made so far
    kp,         \* kp[p]: the MessageKeyPair of party p, or None
    wire,       \* the EncryptedMessage in flight with its provenance, or None
    rcv,        \* the result of the last decrypt_message, or None
    ids,        \* ids[i]: the i-th IdentityKeyPair, or None
    mks,        \* mks[k]: the k-th master key, Some(bytes) or None
    sealed,     \* the last EncryptedIdentityKeys with its provenance, or None
    opened,     \* the result of the last IdentityKeyPair::decrypt, or None
    signed,     \* the last signature with its provenance, or None
    verified,   \* the last IdentityKeyPair::verify with its result, or None
    ratchet,    \* ratchet[p]: the DoubleRatchet of peer p, or None
    pre,        \* pre[p]: ratchet[p] as it was before its last ratchet step
    fed,        \* fed[p]: the remote public keys given to p's ratchet steps
    db,         \* the sled database at db_path: a function from keys to blobs
    chat,       \* chat[c]: the fields of SecureChat instance c
    last,       \* the last SecureChat call with its arguments and result
    account,    \* password and master key of the last SecureStorage::create
    createdKeys, \* what get_public_key returned after each create_account
    closed,     \* the SecureChat instances that close has consumed
    sent,       \* the messages one peer encrypted for the other, in order
    got,        \* the deliveries to the other peer, in order, with results
    published,  \* the protocol messages sent, with the bytes given to gossipsub
    received,   \* what handling each gossipsub message made of its bytes
    coded,      \* the last MessageEnvelope serialized, its bytes and their decoding
    store,      \* the SecureStorage that create returned, or None
    written,    \* written[k]: the value last put under key k, and what the
                \* untrusted store has done to its blob since
    read,       \* the last read of the store: its key, the bytes the record
                \* store returned and the result, or None
    app,        \* the desktop application: the SecureChat in its AppState,
                \* and whether the database path exists
    calls,      \* calls[t]: where task t is in its get_or_create_conversation
    returned,   \* returned[t]: what the calls of task t have returned
    network,    \* SecureChat.network: the task holding the mutex and the Option in it
    network_cmd_tx, \* SecureChat.network_cmd_tx: the manager whose sender it holds
    appLock,    \* the start_network call holding the AppState chat mutex, or None
    starts,     \* starts[c]: where the c-th start_network call is
    netTasks,   \* netTasks[m]: where the network task spawned by call m is
    swarm,      \* number of events the network has given to the task that reads them
    cmdq,       \* the command channel of the NetworkManager
    evq,        \* the channel of NetworkEvents, event_sender to event_rx
    chatq,      \* the channel of ChatEvents, chat_tx to chat_rx
    run,        \* where NetworkManager::run is, and the event it is sending
    evloop,     \* where network_event_loop is, and the event it is sending
    hist        \* in order: the swarm events handled with the NetworkEvent made of
                \* each, the NetworkEvents received and the ChatEvents sent

msgVars == <<kp, wire, rcv>>
sealVars == <<mks, sealed, opened>>
signVars == <<signed, verified>>
ratchetVars == <<ratchet, pre, fed>>
appVars == <<db, chat, last, account, createdKeys, closed>>
sessVars == <<sent, got>>
netVars == <<published, received, coded>>
storeVars == <<store, written, read>>
convVars == <<calls, returned>>
startVars == <<network, network_cmd_tx, appLock, starts, netTasks>>
runVars == <<swarm, cmdq, evq, chatq, run, evloop, hist>>
vars == <<rng, msgVars, ids, sealVars, signVars, ratchetVars, appVars, sessVars, netVars, storeVars, app, convVars, startVars, runVars>>

\* Option<T>
None == [none |-> TRUE]
Some(x) == [some |-> x]

(***************************************************************************)
(* Result<T>: Ok(v) or Err(e).                                             *)
(***************************************************************************)
Ok(v) == [ok |-> TRUE, val |-> v]
Err(e) == [ok |-> FALSE, val |-> e]
\* an anyhow::Error is the chain of its messages, outermost first
Anyhow(msg) == Err(<<msg>>)
\* Result::context / with_context
Context(res, msg) == IF res.ok THEN res ELSE Err(<<msg>> \o res.val)
\* the unit value ()
Unit == <<>>

(***************************************************************************)
(* Byte strings.                                                           *)
(***************************************************************************)
\* the i-th output of the CSPRNG (rng.fill_bytes, OsRng)
Rand(i) == <<"rand", i>>
\* [0u8; 32]
ZeroBytes == <<"zero">>
\* a byte string with bit j flipped
FlipBit(x, j) == <<"flip", x, j>>

Messages == [1..MsgBits -> {0, 1}]

(***************************************************************************)
(* AES-256-GCM.  A ciphertext (with its tag) produced under key and nonce  *)
(* for a plaintext; the last component is the set of bit positions changed *)
(* since it was produced.  Opening succeeds only under the same key and    *)
(* nonce and with no bit changed.                                          *)
(***************************************************************************)
AeadEncrypt(key, nonce, plaintext) == <<"gcm", key, nonce, plaintext, {}>>

\* a decryption that returns the plaintext without checking the tag
AeadDecrypt_unauthenticated(key, nonce, ct) == Ok(ct[4])

AeadDecrypt(key, nonce, ct) ==
    IF ct[1] = "gcm" /\ ct[2] = key /\ ct[3] = nonce /\ ct[5] = {}
    THEN Ok(ct[4])
    ELSE Err(<<"aead::Error">>)

FlipCtBit(ct, j) ==
    <<ct[1], ct[2], ct[3], ct[4], (ct[5] \ {j}) \cup ({j} \ ct[5])>>

(***************************************************************************)
(* HKDF-SHA-256 with no salt: Hkdf::new(None, ikm).expand(info).           *)
(***************************************************************************)
HkdfExpand(ikm, info) == <<"hkdf", ikm, info>>

(***************************************************************************)
(* X25519.  A public key is 32 bytes: a u-coordinate and bit 255, which    *)
(* the scalar multiplication ignores.  The u-coordinate is that of sk*G    *)
(* for a secret sk, or a point of low order, on which every secret yields  *)
(* the all-zero output.                                                    *)
(***************************************************************************)
LowOrderU == <<"low">>
X25519PublicKeyBytes(u, bit255) == <<"x25519", u, bit255>>
\* X25519PublicKey::from(&secret)
X25519PublicKeyFrom(secret) == X25519PublicKeyBytes(<<"u", secret>>, 0)

\* StaticSecret::diffie_hellman(&self, their_public)
diffie_hellman(secret, their_public) ==
    LET u == their_public[2]
    IN  IF u = LowOrderU THEN ZeroBytes ELSE <<"dh", {secret, u[2]}>>

(***************************************************************************)
(* Argon2id with the library's default parameters: the 32-byte hash of a   *)
(* password under a salt.                                                  *)
(***************************************************************************)
\* a derivation that hashes the salt alone
Argon2id_ignores_password(password, salt) == <<"argon2id", <<>>, salt>>

Argon2id(password, salt) == <<"argon2id", password, salt>>

(***************************************************************************)
(* MasterKey (crypto.rs).                                                  *)
(***************************************************************************)
\* from_password putting the master key itself where its ciphertext belongs
MasterKey_from_password_stores_key_in_clear(password, salt, nonce, master_key) ==
    Ok(<<[encrypted_key |-> master_key,
          salt |-> salt,
          nonce |-> nonce], master_key>>)

\* from_password returning the password-derived key as the master key
MasterKey_from_password_returns_derived(password, salt, nonce, master_key) ==
    LET derived_key == Argon2id(password, salt)
    IN  Ok(<<[encrypted_key |-> AeadEncrypt(derived_key, nonce, master_key),
              salt |-> salt,
              nonce |-> nonce], derived_key>>)

\* MasterKey::from_password; salt, nonce and master_key are the three values
\* the call draws from rng, in this order
MasterKey_from_password(password, salt, nonce, master_key) ==
    LET derived_key == Argon2id(password, salt)
    IN  Ok(<<[encrypted_key |-> AeadEncrypt(derived_key, nonce, master_key),
              salt |-> salt,
              nonce |-> nonce], master_key>>)

\* MasterKey::unlock
MasterKey_unlock(self, password) ==
    LET derived_key == Argon2id(password, self.salt)
        decrypted == AeadDecrypt(derived_key, self.nonce, self.encrypted_key)
    IN  IF decrypted.ok
        THEN Ok(decrypted.val)
        ELSE Anyhow("Failed to decrypt master key - wrong password?: Error")

(***************************************************************************)
(* Ed25519.  A signature is determined by the signing key and the message  *)
(* (signing is deterministic); its last component is the set of bit        *)
(* positions changed since it was made.  verify_strict accepts a signature *)
(* only for the key and message it was made for, with no bit changed.      *)
(***************************************************************************)
\* SigningKey::verifying_key
verifying_key(secret_key) == <<"ed25519", secret_key>>

Ed25519Sign(secret_key, message) == <<"sig", secret_key, message, {}>>

FlipSigBit(sig, j) ==
    <<sig[1], sig[2], sig[3], (sig[4] \ {j}) \cup ({j} \ sig[4])>>

\* a verification that does not bind the message
verify_strict_any_message(public_key, message, signature) ==
    signature[4] = {} /\ public_key = verifying_key(signature[2])

\* VerifyingKey::verify_strict
verify_strict(public_key, message, signature) ==
    /\ signature[4] = {}
    /\ public_key = verifying_key(signature[2])
    /\ message = signature[3]

(***************************************************************************)
(* IdentityKeyPair (crypto.rs).                                            *)
(***************************************************************************)
\* IdentityKeyPair::generate with the secret the rng returned
IdentityKeyPair_generate(secret) ==
    [public_key |-> verifying_key(secret), secret_key |-> secret]

\* IdentityKeyPair::sign
IdentityKeyPair_sign(self, message) == Ed25519Sign(self.secret_key, message)

\* IdentityKeyPair::verify
IdentityKeyPair_verify(public_key, message, signature) ==
    IF verify_strict(public_key, message, signature)
    THEN Ok(Unit)
    ELSE Anyhow("Signature verification failed")

\* IdentityKeyPair::encrypt; nonce is the value the call draws from rng
IdentityKeyPair_encrypt(self, master_key, nonce) ==
    Ok([public_key |-> self.public_key,
        encrypted_secret |-> AeadEncrypt(master_key, nonce, self.secret_key),
        nonce |-> nonce])

\* a decrypt that goes on with the zeroed secret_bytes when opening fails
IdentityKeyPair_decrypt_unchecked(encrypted, master_key) ==
    LET decrypted == AeadDecrypt(master_key, encrypted.nonce,
                                 encrypted.encrypted_secret)
        secret_bytes == IF decrypted.ok THEN decrypted.val ELSE ZeroBytes
    IN  Ok([public_key |-> verifying_key(secret_bytes),
            secret_key |-> secret_bytes])

\* IdentityKeyPair::decrypt
IdentityKeyPair_decrypt(encrypted, master_key) ==
    LET decrypted == AeadDecrypt(master_key, encrypted.nonce,
                                 encrypted.encrypted_secret)
    IN  IF ~decrypted.ok
        THEN Anyhow("Failed to decrypt identity keys: Error")
        ELSE Ok([public_key |-> verifying_key(decrypted.val),
                 secret_key |-> decrypted.val])

(***************************************************************************)
(* MessageKeyPair (crypto.rs).                                             *)
(***************************************************************************)
\* MessageKeyPair::generate with the secret the CSPRNG returned
MessageKeyPair_generate(secret) ==
    [public_key |-> X25519PublicKeyFrom(secret), secret_key |-> secret]

\* decrypt_message concatenating dh2 before dh1
decrypt_dh_bytes_swapped(dh1, dh2) == <<dh2, dh1>>

\* dh_bytes of decrypt_message: dh1 then dh2
decrypt_dh_bytes(dh1, dh2) == <<dh1, dh2>>

\* MessageKeyPair::encrypt_message; ephemeral_secret and nonce are the two
\* values the call draws from OsRng
encrypt_message(self, recipient_pubkey, message, ephemeral_secret, nonce) ==
    LET ephemeral_pubkey == X25519PublicKeyFrom(ephemeral_secret)
        dh1 == diffie_hellman(self.secret_key, recipient_pubkey)
        dh2 == diffie_hellman(ephemeral_secret, recipient_pubkey)
        shared_secret == HkdfExpand(<<dh1, dh2>>, "SecureChat-v1")
    IN  Ok([ciphertext |-> AeadEncrypt(shared_secret, nonce, message),
            nonce |-> nonce,
            sender_pubkey |-> self.public_key,
            ephemeral_pubkey |-> ephemeral_pubkey])

\* decrypt_message reports an AEAD failure with this message
DecryptionFailed == "Decryption failed - wrong key or tampered message: Error"

\* MessageKeyPair::decrypt_message
decrypt_message(self, encrypted) ==
    LET dh1 == diffie_hellman(self.secret_key, encrypted.sender_pubkey)
        dh2 == diffie_hellman(self.secret_key, encrypted.ephemeral_pubkey)
        shared_secret == HkdfExpand(decrypt_dh_bytes(dh1, dh2), "SecureChat-v1")
        plaintext == AeadDecrypt(shared_secret, encrypted.nonce, encrypted.ciphertext)
    IN  IF plaintext.ok THEN Ok(plaintext.val) ELSE Anyhow(DecryptionFailed)

(***************************************************************************)
(* DoubleRatchet (crypto.rs).                                              *)
(***************************************************************************)
\* an initial state that numbers the first message 1
DoubleRatchet_initialize_counts_from_one(shared_secret) ==
    [root_key |-> shared_secret,
     sending_chain_key |-> None,
     receiving_chain_key |-> None,
     sending_message_number |-> 1,
     receiving_message_number |-> 1,
     skipped_message_keys |-> <<>>]

\* an initialize that takes the all-zero root key
DoubleRatchet_initialize_zero_root(shared_secret) ==
    [root_key |-> ZeroBytes,
     sending_chain_key |-> None,
     receiving_chain_key |-> None,
     sending_message_number |-> 0,
     receiving_message_number |-> 0,
     skipped_message_keys |-> <<>>]

\* DoubleRatchet::initialize
DoubleRatchet_initialize(shared_secret) ==
    [root_key |-> shared_secret,
     sending_chain_key |-> None,
     receiving_chain_key |-> None,
     sending_message_number |-> 0,
     receiving_message_number |-> 0,
     skipped_message_keys |-> <<>>]

\* a ratchet step that derives both chain keys under one label
DoubleRatchet_ratchet_one_label(self, new_remote_pubkey) ==
    LET new_root == HkdfExpand(self.root_key, "ratchet-root")
        sending == HkdfExpand(self.root_key, "ratchet-chain")
        receiving == HkdfExpand(self.root_key, "ratchet-chain")
    IN  [self EXCEPT !.root_key = new_root,
                     !.sending_chain_key = Some(sending),
                     !.receiving_chain_key = Some(receiving),
                     !.sending_message_number = 0,
                     !.receiving_message_number = 0]

\* a ratchet step that also empties the buffer of skipped keys
DoubleRatchet_ratchet_clears_skipped(self, new_remote_pubkey) ==
    LET new_root == HkdfExpand(self.root_key, "ratchet-root")
        sending == HkdfExpand(self.root_key, "ratchet-send")
        receiving == HkdfExpand(self.root_key, "ratchet-recv")
    IN  [self EXCEPT !.root_key = new_root,
                     !.sending_chain_key = Some(sending),
                     !.receiving_chain_key = Some(receiving),
                     !.sending_message_number = 0,
                     !.receiving_message_number = 0,
                     !.skipped_message_keys = <<>>]

\* DoubleRatchet::ratchet: the state after the step (the call returns Ok(())
\* whenever the three 32-byte expansions succeed, which they always do)
DoubleRatchet_ratchet(self, new_remote_pubkey) ==
    LET new_root == HkdfExpand(self.root_key, "ratchet-root")
        sending == HkdfExpand(self.root_key, "ratchet-send")
        receiving == HkdfExpand(self.root_key, "ratchet-recv")
    IN  [self EXCEPT !.root_key = new_root,
                     !.sending_chain_key = Some(sending),
                     !.receiving_chain_key = Some(receiving),
                     !.sending_message_number = 0,
                     !.receiving_message_number = 0]

(***************************************************************************)
(* bincode: the serialized form of a value, and its inverse on such forms. *)
(***************************************************************************)
bincode_serialize(value) == <<"bincode", value>>

bincode_deserialize(bytes, msg) ==
    IF bytes[1] = "bincode" THEN Ok(bytes[2]) ELSE Anyhow(msg)

\* bincode writes the fields of a value in their order with no description
\* of their types and reads them back as the target type directs: its
\* Deserializer has no deserialize_any.  An enum under #[serde(tag = "type")]
\* is written as the name of its variant followed by the variant's fields,
\* and the Deserialize derived for it looks for the tag with deserialize_any.
\* These are the types declared with that attribute and the stored type that
\* holds one of them (LocalMessage.content is a MessageContent).
InternallyTagged == {"MessageContent", "ProtocolMessage", "LocalMessage"}

\* bincode::deserialize::<T>, with the error bincode returns
bincode_deserialize_as(T, bytes) ==
    IF T \in InternallyTagged
    THEN Err(<<"DeserializeAnyNotSupported">>)
    ELSE IF bytes[1] = "bincode"
    THEN Ok(bytes[2])
    ELSE Err(<<"io error">>)

(***************************************************************************)
(* The sled database: a function from keys to byte strings.  A key is its  *)
(* prefix and the identifier that follows it.                              *)
(***************************************************************************)
EmptyDb == [k \in {} |-> None]

db_insert(d, key, value) ==
    [k \in DOMAIN d \cup {key} |-> IF k = key THEN value ELSE d[k]]

db_get(d, key) == IF key \in DOMAIN d THEN Some(d[key]) ELSE None

PREFIX_MASTER_KEY == <<"mk:", <<>>>>
IdentityKey == <<"id:", <<"self">>>>
ProfileKey == <<"pf:", <<"self">>>>
DeviceKey(device_id) == <<"dv:", device_id>>

(***************************************************************************)
(* SecureStorage (storage.rs).  The value of a SecureStorage is its        *)
(* master_key; the database it holds open is the one database of the       *)
(* model.  An operation that writes takes io_ok, whether the insert        *)
(* succeeds, and returns the database it leaves with its result.           *)
(***************************************************************************)
\* SecureStorage::create; salt, nonce, key are the draws of from_password
SecureStorage_create(d, password, salt, nonce, key, io_ok) ==
    LET made == MasterKey_from_password(password, salt, nonce, key)
        master_key_store == made.val[1]
        master_key == made.val[2]
        serialized == bincode_serialize(master_key_store)
    IN  IF ~io_ok
        THEN [res |-> Err(<<"Failed to store master key", "io error">>), db |-> d]
        ELSE [res |-> Ok([master_key |-> master_key]),
              db |-> db_insert(d, PREFIX_MASTER_KEY, serialized)]

\* SecureStorage::unlock
SecureStorage_unlock(d, password) ==
    LET stored == db_get(d, PREFIX_MASTER_KEY)
    IN  IF stored = None
        THEN Anyhow("No master key found")
        ELSE LET encrypted == bincode_deserialize(stored.some,
                                                  "Failed to deserialize master key")
             IN  IF ~encrypted.ok
                 THEN encrypted
                 ELSE LET master_key == MasterKey_unlock(encrypted.val, password)
                      IN  IF ~master_key.ok
                          THEN Context(master_key,
                                       "Failed to unlock database - wrong password?")
                          ELSE Ok([master_key |-> master_key.val])

\* encrypt sealing every entry under the all-zero nonce
SecureStorage_encrypt_constant_nonce(self, data, salt, nonce) ==
    Ok(<<"blob", salt, ZeroBytes, AeadEncrypt(self.master_key, ZeroBytes, data)>>)

\* SecureStorage::encrypt; salt and nonce are the two values the call draws
SecureStorage_encrypt(self, data, salt, nonce) ==
    Ok(<<"blob", salt, nonce, AeadEncrypt(self.master_key, nonce, data)>>)

\* the first n bytes of a byte string that is longer
First(n, x) == <<"first", n, x>>

\* the AES-GCM tag
TagSize == 16

\* data.len(), as far as the decoders ask: a string cut to n bytes has n, a
\* blob has 16 salt bytes, 12 nonce bytes and its ciphertext, and a whole
\* ciphertext has its tag and a plaintext of at least one byte
ByteLen(x) ==
    CASE x[1] = "first" -> x[2]
      [] x[1] = "gcm" -> TagSize + 1
      [] x[1] = "blob" ->
           16 + 12 + (IF x[4][1] = "first" THEN x[4][2] ELSE TagSize + 1)

\* what is left of a stored blob cut to its first n bytes
Truncated(data, n) ==
    IF n < 28
    THEN First(n, data)
    ELSE <<"blob", data[2], data[3], First(n - 28, data[4])>>

\* SecureStorage::decrypt
SecureStorage_decrypt(self, data) ==
    IF ByteLen(data) < 28
    THEN Anyhow("Invalid encrypted data")
    ELSE LET nonce == data[3]
             ciphertext == data[4]
         IN  Context(AeadDecrypt(self.master_key, nonce, ciphertext),
                     "Decryption failed")

\* SecureStorage::put
SecureStorage_put(self, d, key, value, salt, nonce, io_ok) ==
    LET serialized == bincode_serialize(value)
        encrypted == SecureStorage_encrypt(self, serialized, salt, nonce)
    IN  IF ~io_ok
        THEN [res |-> Err(<<"Failed to store value", "io error">>), db |-> d]
        ELSE [res |-> Ok(Unit), db |-> db_insert(d, key, encrypted.val)]

\* SecureStorage::get
SecureStorage_get(self, d, key) ==
    LET data == db_get(d, key)
    IN  IF data = None
        THEN Ok(None)
        ELSE LET decrypted == SecureStorage_decrypt(self, data.some)
             IN  IF ~decrypted.ok
                 THEN decrypted
                 ELSE LET value == bincode_deserialize(decrypted.val,
                                                       "Failed to deserialize value")
                      IN  IF value.ok THEN Ok(Some(value.val)) ELSE value

store_identity(self, d, identity, salt, nonce, io_ok) ==
    SecureStorage_put(self, d, IdentityKey, identity, salt, nonce, io_ok)

get_identity(self, d) == SecureStorage_get(self, d, IdentityKey)

store_profile(self, d, profile, salt, nonce, io_ok) ==
    SecureStorage_put(self, d, ProfileKey, profile, salt, nonce, io_ok)

get_profile(self, d) == SecureStorage_get(self, d, ProfileKey)

store_device(self, d, device, salt, nonce, io_ok) ==
    SecureStorage_put(self, d, DeviceKey(device.device_id), device, salt, nonce, io_ok)

\* the keys of contacts, conversations, messages and settings
ContactKey(id) == <<"ct:", id>>
ConversationKey(id) == <<"cv:", id>>
MessageKey(conversation_id, message_id) == <<"msg:", <<conversation_id, "/", message_id>>>>
SettingKey(key) == <<"st:", key>>

\* str::as_bytes: the UTF-8 bytes of a string
as_bytes(string) == <<"utf8", string>>

\* what db.scan_prefix(prefix) yields, decrypted and deserialized: an error
\* if a value does not open under the master key, else the values read.
\* The Vec is modelled by the set of its elements.
scan_prefix(self, d, prefix, msg) ==
    LET keys == {k \in DOMAIN d : k[1] = prefix}
        failed == {k \in keys : ~SecureStorage_decrypt(self, d[k]).ok}
    IN  IF failed # {}
        THEN SecureStorage_decrypt(self, d[CHOOSE k \in failed : TRUE])
        ELSE Ok({bincode_deserialize(SecureStorage_decrypt(self, d[k]).val, msg).val :
                   k \in keys})

store_contact(self, d, contact, salt, nonce, io_ok) ==
    SecureStorage_put(self, d, ContactKey(contact.id), contact, salt, nonce, io_ok)

get_contact(self, d, id) == SecureStorage_get(self, d, ContactKey(id))

get_all_contacts(self, d) == scan_prefix(self, d, "ct:", "Failed to deserialize contact")

store_conversation(self, d, conversation, salt, nonce, io_ok) ==
    SecureStorage_put(self, d, ConversationKey(conversation.id), conversation,
                      salt, nonce, io_ok)

get_conversation(self, d, id) == SecureStorage_get(self, d, ConversationKey(id))

get_all_conversations(self, d) ==
    scan_prefix(self, d, "cv:", "Failed to deserialize conversation")

get_conversation_by_contact(self, d, contact_id) ==
    LET all == get_all_conversations(self, d)
    IN  IF ~all.ok
        THEN all
        ELSE LET found == {conv \in all.val : conv.contact_id = contact_id}
             IN  IF found = {} THEN Ok(None) ELSE Ok(Some(CHOOSE conv \in found : TRUE))

store_message(self, d, message, salt, nonce, io_ok) ==
    SecureStorage_put(self, d, MessageKey(message.conversation_id, message.id),
                      message, salt, nonce, io_ok)

\* SecureStorage::get_message: get::<LocalMessage>
get_message(self, d, conversation_id, message_id) ==
    LET data == db_get(d, MessageKey(conversation_id, message_id))
    IN  IF data = None
        THEN Ok(None)
        ELSE LET decrypted == SecureStorage_decrypt(self, data.some)
             IN  IF ~decrypted.ok
                 THEN decrypted
                 ELSE LET value == Context(bincode_deserialize_as("LocalMessage",
                                                                  decrypted.val),
                                           "Failed to deserialize value")
                      IN  IF value.ok THEN Ok(Some(value.val)) ELSE value

\* sled keeps its keys in byte order.  The identifiers of the model stand for
\* byte strings that ascend with their index, so a message key is placed by
\* the index of its message identifier.
KeyIndex(k) == k[2][3][2][2]

\* the keys of d that start with "msg:<conversation_id>/", in key order
RECURSIVE KeysInOrder(_)
KeysInOrder(keys) ==
    IF keys = {}
    THEN <<>>
    ELSE LET first == CHOOSE k \in keys : \A o \in keys : KeyIndex(k) <= KeyIndex(o)
         IN  <<first>> \o KeysInOrder(keys \ {first})

message_scan_prefix(d, conversation_id) ==
    KeysInOrder({k \in DOMAIN d : k[1] = "msg:" /\ k[2][1] = conversation_id})

\* the loop of get_messages: it stops at limit messages, and an entry that
\* does not decrypt or deserialize ends the call with its error
RECURSIVE get_messages_loop(_, _, _, _, _)
get_messages_loop(self, d, keys, limit, messages) ==
    IF keys = <<>> \/ Len(messages) >= limit
    THEN Ok(messages)
    ELSE LET decrypted == SecureStorage_decrypt(self, d[Head(keys)])
         IN  IF ~decrypted.ok
             THEN decrypted
             ELSE LET message == Context(bincode_deserialize_as("LocalMessage",
                                                                decrypted.val),
                                         "Failed to deserialize message")
                  IN  IF ~message.ok
                      THEN message
                      ELSE get_messages_loop(self, d, Tail(keys), limit,
                                             Append(messages, message.val))

\* messages.sort_by(|a, b| a.timestamp.cmp(&b.timestamp)): a stable sort
RECURSIVE sort_by_timestamp(_)
sort_by_timestamp(messages) ==
    IF Len(messages) <= 1
    THEN messages
    ELSE LET sorted == sort_by_timestamp(SubSeq(messages, 1, Len(messages) - 1))
             x == messages[Len(messages)]
         IN  SelectSeq(sorted, LAMBDA m : m.timestamp <= x.timestamp)
                 \o <<x>>
                 \o SelectSeq(sorted, LAMBDA m : m.timestamp > x.timestamp)

\* SecureStorage::get_messages
get_messages(self, d, conversation_id, limit) ==
    LET messages == get_messages_loop(self, d, message_scan_prefix(d, conversation_id),
                                      limit, <<>>)
    IN  IF ~messages.ok THEN messages ELSE Ok(sort_by_timestamp(messages.val))

\* SecureStorage::set_setting: the value goes to the database as it is
set_setting(self, d, key, value, io_ok) ==
    IF ~io_ok
    THEN [res |-> Err(<<"Failed to store setting", "io error">>), db |-> d]
    ELSE [res |-> Ok(Unit), db |-> db_insert(d, SettingKey(key), as_bytes(value))]

(***************************************************************************)
(* SecureChat (lib.rs).  A SecureChat is the record of its storage,        *)
(* identity, message_keys and profile, each an Option, and its device_id.  *)
(* The timestamps of a profile and a device are left out.                  *)
(***************************************************************************)
\* SecureChat::new
SecureChat_new(device_id) ==
    [storage |-> None,
     identity |-> None,
     message_keys |-> None,
     profile |-> None,
     device_id |-> device_id]

\* detect_platform on a Linux build
detect_platform == "Linux"

\* the database writes of create_account that may fail, and none of them
FailPoints == {"none", "create", "store_identity", "store_profile", "store_device"}

\* SecureChat::create_account, drawing Rand(r), Rand(r + 1), ... in the
\* order of the code; fail names the write that returns an error.  The
\* result is the instance and the database the call leaves, what it
\* returns, and the number of values drawn.
create_account(self, d, password, display_name, r, fail) ==
    LET created == SecureStorage_create(d, password, Rand(r), Rand(r + 1),
                                        Rand(r + 2), fail # "create")
    IN  IF ~created.res.ok
        THEN [self |-> self, db |-> created.db, draws |-> 3,
              res |-> Context(created.res, "Failed to create database")]
        ELSE
    LET storage == created.res.val
        self1 == [self EXCEPT !.storage = Some(storage)]
        identity == IdentityKeyPair_generate(Rand(r + 3))
        master_key == storage.master_key
        encrypted_identity == IdentityKeyPair_encrypt(identity, master_key, Rand(r + 4))
        stored_identity == store_identity(storage, created.db, encrypted_identity.val,
                                          Rand(r + 5), Rand(r + 6),
                                          fail # "store_identity")
    IN  IF ~stored_identity.res.ok
        THEN [self |-> self1, db |-> stored_identity.db, draws |-> 7,
              res |-> stored_identity.res]
        ELSE
    LET message_keys == MessageKeyPair_generate(Rand(r + 7))
        self2 == [self1 EXCEPT !.identity = Some(identity),
                               !.message_keys = Some(message_keys)]
        profile == [display_name |-> display_name,
                    status_message |-> None,
                    avatar |-> None]
        stored_profile == store_profile(storage, stored_identity.db, profile,
                                        Rand(r + 8), Rand(r + 9),
                                        fail # "store_profile")
    IN  IF ~stored_profile.res.ok
        THEN [self |-> self2, db |-> stored_profile.db, draws |-> 10,
              res |-> stored_profile.res]
        ELSE
    LET self3 == [self2 EXCEPT !.profile = Some(profile)]
        device == [device_id |-> self.device_id,
                   device_name |-> <<display_name, "'s Device">>,
                   platform |-> detect_platform,
                   identity_key |-> encrypted_identity.val]
        stored_device == store_device(storage, stored_profile.db, device,
                                      Rand(r + 10), Rand(r + 11),
                                      fail # "store_device")
    IN  [self |-> self3, db |-> stored_device.db, draws |-> 12,
         res |-> stored_device.res]

\* an unlock_account that keeps the session key pair the instance holds
unlock_account_keeps_message_keys(self, d, password, r) ==
    LET unlocked == SecureStorage_unlock(d, password)
    IN  IF ~unlocked.ok
        THEN [self |-> self, draws |-> 0,
              res |-> Context(unlocked, "Failed to unlock database")]
        ELSE
    LET storage == unlocked.val
        self1 == [self EXCEPT !.storage = Some(storage)]
        encrypted_identity == get_identity(storage, d)
    IN  IF ~encrypted_identity.ok
        THEN [self |-> self1, draws |-> 0,
              res |-> Context(encrypted_identity, "Failed to get identity")]
        ELSE IF encrypted_identity.val = None
        THEN [self |-> self1, draws |-> 0, res |-> Anyhow("No identity found")]
        ELSE
    LET master_key == storage.master_key
        identity == IdentityKeyPair_decrypt(encrypted_identity.val.some, master_key)
    IN  IF ~identity.ok
        THEN [self |-> self1, draws |-> 0,
              res |-> Context(identity, "Failed to decrypt identity")]
        ELSE
    LET message_keys == IF self.message_keys # None
                        THEN self.message_keys.some
                        ELSE MessageKeyPair_generate(Rand(r))
        self2 == [self1 EXCEPT !.identity = Some(identity.val),
                               !.message_keys = Some(message_keys)]
        profile == get_profile(storage, d)
    IN  IF ~profile.ok
        THEN [self |-> self2, draws |-> 1,
              res |-> Context(profile, "Failed to get profile")]
        ELSE [self |-> [self2 EXCEPT !.profile = profile.val], draws |-> 1,
              res |-> Ok(Unit)]

\* SecureChat::unlock_account, drawing Rand(r) for the message keys.  The
\* result is the instance the call leaves, what it returns, and the number
\* of values drawn; the database is only read.
unlock_account(self, d, password, r) ==
    LET unlocked == SecureStorage_unlock(d, password)
    IN  IF ~unlocked.ok
        THEN [self |-> self, draws |-> 0,
              res |-> Context(unlocked, "Failed to unlock database")]
        ELSE
    LET storage == unlocked.val
        self1 == [self EXCEPT !.storage = Some(storage)]
        encrypted_identity == get_identity(storage, d)
    IN  IF ~encrypted_identity.ok
        THEN [self |-> self1, draws |-> 0,
              res |-> Context(encrypted_identity, "Failed to get identity")]
        ELSE IF encrypted_identity.val = None
        THEN [self |-> self1, draws |-> 0, res |-> Anyhow("No identity found")]
        ELSE
    LET master_key == storage.master_key
        identity == IdentityKeyPair_decrypt(encrypted_identity.val.some, master_key)
    IN  IF ~identity.ok
        THEN [self |-> self1, draws |-> 0,
              res |-> Context(identity, "Failed to decrypt identity")]
        ELSE
    LET message_keys == MessageKeyPair_generate(Rand(r))
        self2 == [self1 EXCEPT !.identity = Some(identity.val),
                               !.message_keys = Some(message_keys)]
        profile == get_profile(storage, d)
    IN  IF ~profile.ok
        THEN [self |-> self2, draws |-> 1,
              res |-> Context(profile, "Failed to get profile")]
        ELSE [self |-> [self2 EXCEPT !.profile = profile.val], draws |-> 1,
              res |-> Ok(Unit)]

\* protocol::generate_id: the base64 text of 16 bytes drawn from the CSPRNG
generate_id(r) == <<"id", Rand(r)>>

\* Contact::new, without its timestamps
Contact_new(id, display_name, public_key) ==
    [id |-> id,
     display_name |-> display_name,
     public_key |-> public_key,
     verified |-> FALSE,
     blocked |-> FALSE]

\* Conversation::new, without its timestamps; id is the generate_id it draws
Conversation_new(id, contact_id) ==
    [id |-> id,
     contact_id |-> contact_id,
     last_message_preview |-> None,
     unread_count |-> 0,
     archived |-> FALSE,
     pinned |-> FALSE,
     ratchet_state |-> None]

\* SecureChat::add_contact on an instance whose storage is open
add_contact(self, d, public_key, display_name, r, io_ok) ==
    LET contact == Contact_new(generate_id(r), display_name, public_key)
        stored == store_contact(self.storage.some, d, contact,
                                Rand(r + 1), Rand(r + 2), io_ok)
    IN  [db |-> stored.db, draws |-> 3,
         res |-> IF stored.res.ok THEN Ok(contact) ELSE stored.res]

\* SecureChat::get_or_create_conversation on an instance whose storage is open
get_or_create_conversation(self, d, contact_id, r, io_ok) ==
    LET found == get_conversation_by_contact(self.storage.some, d, contact_id)
    IN  IF ~found.ok
        THEN [db |-> d, draws |-> 0, res |-> found]
        ELSE IF found.val # None
        THEN [db |-> d, draws |-> 0, res |-> Ok(found.val.some)]
        ELSE
    LET conversation == Conversation_new(generate_id(r), contact_id)
        stored == store_conversation(self.storage.some, d, conversation,
                                     Rand(r + 1), Rand(r + 2), io_ok)
    IN  [db |-> stored.db, draws |-> 3,
         res |-> IF stored.res.ok THEN Ok(conversation) ELSE stored.res]

\* a send that stores the message before it looks up the contact
send_text_message_stores_first(self, d, conversation_id, text, r, io_ok) ==
    LET conversation == get_conversation(self.storage.some, d, conversation_id)
    IN  IF ~conversation.ok
        THEN [db |-> d, draws |-> 0, res |-> conversation]
        ELSE IF conversation.val = None
        THEN [db |-> d, draws |-> 0, res |-> Anyhow("Conversation not found")]
        ELSE
    LET message_id == generate_id(r)
        local_message == [id |-> message_id,
                          conversation_id |-> conversation_id,
                          sender_id |-> "self",
                          is_outgoing |-> TRUE,
                          content |-> [type |-> "Text", text |-> text],
                          sent |-> FALSE, delivered |-> FALSE, read |-> FALSE,
                          reply_to |-> None]
        stored == store_message(self.storage.some, d, local_message,
                                Rand(r + 1), Rand(r + 2), io_ok)
        contact == get_contact(self.storage.some, d, conversation.val.some.contact_id)
    IN  IF ~stored.res.ok
        THEN [db |-> stored.db, draws |-> 3, res |-> stored.res]
        ELSE IF ~contact.ok
        THEN [db |-> stored.db, draws |-> 3, res |-> contact]
        ELSE IF contact.val = None
        THEN [db |-> stored.db, draws |-> 3, res |-> Anyhow("Contact not found")]
        ELSE [db |-> stored.db, draws |-> 3, res |-> Ok(message_id)]

\* SecureChat::send_text_message on an instance whose storage is open.  The
\* message is stored and its id returned; nothing is encrypted or given to
\* the network (the call that would is commented out).
send_text_message(self, d, conversation_id, text, r, io_ok) ==
    LET conversation == get_conversation(self.storage.some, d, conversation_id)
    IN  IF ~conversation.ok
        THEN [db |-> d, draws |-> 0, res |-> conversation]
        ELSE IF conversation.val = None
        THEN [db |-> d, draws |-> 0, res |-> Anyhow("Conversation not found")]
        ELSE
    LET contact == get_contact(self.storage.some, d, conversation.val.some.contact_id)
    IN  IF ~contact.ok
        THEN [db |-> d, draws |-> 0, res |-> contact]
        ELSE IF contact.val = None
        THEN [db |-> d, draws |-> 0, res |-> Anyhow("Contact not found")]
        ELSE
    LET message_id == generate_id(r)
        local_message == [id |-> message_id,
                          conversation_id |-> conversation_id,
                          sender_id |-> "self",
                          is_outgoing |-> TRUE,
                          content |-> [type |-> "Text", text |-> text],
                          sent |-> FALSE, delivered |-> FALSE, read |-> FALSE,
                          reply_to |-> None]
        stored == store_message(self.storage.some, d, local_message,
                                Rand(r + 1), Rand(r + 2), io_ok)
    IN  [db |-> stored.db, draws |-> 3,
         res |-> IF stored.res.ok THEN Ok(message_id) ELSE stored.res]

\* SecureChat::export_backup on an instance whose storage is open; the
\* bytes returned are the length-prefixed serialized envelope of the backup
\* key, the nonce and the ciphertext of the JSON document; master_key is the
\* backup key the call held while it ran
export_backup(self, d, password, r) ==
    LET contacts == get_all_contacts(self.storage.some, d)
        conversations == get_all_conversations(self.storage.some, d)
        profile == get_profile(self.storage.some, d)
    IN  IF ~contacts.ok
        THEN [draws |-> 0, res |-> contacts, master_key |-> None]
        ELSE IF ~conversations.ok
        THEN [draws |-> 0, res |-> conversations, master_key |-> None]
        ELSE IF ~profile.ok
        THEN [draws |-> 0, res |-> profile, master_key |-> None]
        ELSE
    LET json_data == <<"json", [version |-> 1,
                               contacts |-> contacts.val,
                               conversations |-> conversations.val,
                               profile |-> profile.val]>>
        made == MasterKey_from_password(password, Rand(r), Rand(r + 1), Rand(r + 2))
        master_key_store == made.val[1]
        master_key == made.val[2]
        nonce == Rand(r + 3)
        encrypted == AeadEncrypt(master_key, nonce, json_data)
    IN  [draws |-> 4, master_key |-> Some(master_key),
         res |-> Ok(<<"backup", bincode_serialize(master_key_store), nonce, encrypted>>)]

\* the memory of a SecureChat after it is dropped
drop(self, zeroize) ==
    [self EXCEPT
       !.identity = IF zeroize /\ @ # None
                    THEN Some([@.some EXCEPT !.secret_key = ZeroBytes])
                    ELSE @,
       !.message_keys = IF zeroize /\ @ # None
                        THEN Some([@.some EXCEPT !.secret_key = ZeroBytes])
                        ELSE @]

\* SecureChat::get_public_key
get_public_key(self) ==
    IF self.identity = None
    THEN Anyhow("Not authenticated")
    ELSE Ok(self.identity.some.public_key)

(***************************************************************************)
(* The desktop commands (main.rs).  A command makes a SecureChat of its    *)
(* own, calls the core on the database at the data directory and returns   *)
(* Result<bool, String> to the window.  The result here is the SecureChat  *)
(* the command leaves in the AppState (None when it leaves none), the      *)
(* database, the draws made, what the core returned and what the command   *)
(* returns.                                                                *)
(***************************************************************************)
\* anyhow::Error::to_string: the outermost message of the chain
to_string(e) == e[1]

\* the command create_account
desktop_create_account(d, password, display_name, r, fail) ==
    LET chat0 == SecureChat_new(generate_id(r))
        made == create_account(chat0, d, password, display_name, r + 1, fail)
    IN  [chat |-> IF made.res.ok THEN Some(made.self) ELSE None,
         db |-> made.db,
         draws |-> made.draws + 1,
         core |-> Some(made.res),
         ret |-> IF made.res.ok THEN Ok(TRUE) ELSE Err(to_string(made.res.val))]

\* an unlock_account command that passes the core's message on
desktop_unlock_account_shows_cause(exists, d, password, r) ==
    IF ~exists
    THEN [chat |-> None, draws |-> 0, core |-> None,
          ret |-> Err("No account found. Please create one first.")]
    ELSE LET chat0 == SecureChat_new(generate_id(r))
             unlocked == unlock_account(chat0, d, password, r + 1)
         IN  [chat |-> IF unlocked.res.ok THEN Some(unlocked.self) ELSE None,
              draws |-> unlocked.draws + 1,
              core |-> Some(unlocked.res),
              ret |-> IF unlocked.res.ok
                      THEN Ok(TRUE)
                      ELSE Err(to_string(unlocked.res.val))]

\* the command unlock_account; exists is db_path.exists()
desktop_unlock_account(exists, d, password, r) ==
    IF ~exists
    THEN [chat |-> None, draws |-> 0, core |-> None,
          ret |-> Err("No account found. Please create one first.")]
    ELSE LET chat0 == SecureChat_new(generate_id(r))
             unlocked == unlock_account(chat0, d, password, r + 1)
         IN  [chat |-> IF unlocked.res.ok THEN Some(unlocked.self) ELSE None,
              draws |-> unlocked.draws + 1,
              core |-> Some(unlocked.res),
              ret |-> IF unlocked.res.ok THEN Ok(TRUE) ELSE Err("Invalid password")]

(***************************************************************************)
(* Serialization of envelopes and protocol messages (protocol.rs,          *)
(* network.rs).                                                            *)
(***************************************************************************)
\* MessageEnvelope::serialize
MessageEnvelope_serialize(self) ==
    Context(Ok(bincode_serialize(self)), "Failed to serialize message envelope")

\* MessageEnvelope::deserialize
MessageEnvelope_deserialize(data) ==
    Context(bincode_deserialize_as("MessageEnvelope", data),
            "Failed to deserialize message envelope")

\* NetworkManager::handle_command on NetworkCommand::SendMessage: the data it
\* gives to gossipsub.publish, the same for a direct message and a broadcast
handle_command_SendMessage(peer_id, message) ==
    LET data == Context(Ok(bincode_serialize(message)), "Failed to serialize message")
    IN  IF peer_id # None THEN data ELSE data

\* NetworkConfig::default().topic
DefaultTopic == "securechat-v1"

\* NetworkManager::handle_command on NetworkCommand::SendMessage: what it asks
\* of the transport, gossipsub.publish on the topic in either branch
handle_command_SendMessage_transport(peer_id, topic) ==
    IF peer_id # None
    THEN [call |-> "gossipsub.publish", topic |-> topic]
    ELSE [call |-> "gossipsub.publish", topic |-> topic]

\* NetworkManager::handle_swarm_event on a gossipsub message: the event it
\* sends to event_sender, or the warning it logs
handle_swarm_event_Message(propagation_source, data) ==
    LET decoded == bincode_deserialize_as("ProtocolMessage", data)
    IN  IF decoded.ok
        THEN [event |-> Some([type |-> "MessageReceived",
                              peer_id |-> propagation_source,
                              message |-> decoded.val]),
              warn |-> None]
        ELSE [event |-> None,
              warn |-> Some(<<"Failed to deserialize message: ", decoded.val>>)]

\* NetworkManager::handle_swarm_event: the NetworkEvent it sends to
\* event_sender, if any; it returns Ok(()) for every event
handle_swarm_event(event) ==
    CASE event.type = "ConnectionEstablished" ->
           Some([type |-> "PeerConnected", peer_id |-> event.peer_id])
      [] event.type = "ConnectionClosed" ->
           Some([type |-> "PeerDisconnected", peer_id |-> event.peer_id])
      [] event.type = "Message" ->
           handle_swarm_event_Message(event.propagation_source, event.data).event
      [] OTHER -> None

\* a handle_protocol_message that reports an Encrypted message as received
handle_protocol_message_reports_encrypted(peer_id, message) ==
    CASE message.type = "ContactRequest" ->
           Some([type |-> "ContactRequestReceived",
                 contact_id |-> peer_id,
                 display_name |-> message.display_name,
                 message |-> message.message])
      [] message.type = "Encrypted" ->
           Some([type |-> "MessageReceived", contact_id |-> peer_id])
      [] OTHER -> None

\* SecureChat::handle_protocol_message
handle_protocol_message(peer_id, message) ==
    CASE message.type = "ContactRequest" ->
           Some([type |-> "ContactRequestReceived",
                 contact_id |-> peer_id,
                 display_name |-> message.display_name,
                 message |-> message.message])
      [] OTHER -> None

\* the match of network_event_loop: the ChatEvent for a NetworkEvent, if any
chat_event(event) ==
    CASE event.type = "MessageReceived" ->
           handle_protocol_message(event.peer_id, event.message)
      [] event.type = "PeerConnected" ->
           Some([type |-> "ContactOnline", contact_id |-> event.peer_id])
      [] event.type = "PeerDisconnected" ->
           Some([type |-> "ContactOffline", contact_id |-> event.peer_id])
      [] OTHER -> None

(***************************************************************************)
(* The envelope specification: parties generate key pairs, one encrypts a  *)
(* message for a recipient public key, the envelope may be changed in one  *)
(* field while in flight, and any party holding a key pair decrypts it.    *)
(***************************************************************************)
Parties == 1..NParties

MsgInit ==
    /\ kp = [p \in Parties |-> None]
    /\ wire = None
    /\ rcv = None

Idents == 1..NIdents
MasterKeys == 1..NMasterKeys

IdentInit == ids = [i \in Idents |-> None]

SealInit ==
    /\ mks = [k \in MasterKeys |-> None]
    /\ sealed = None
    /\ opened = None

SignInit ==
    /\ signed = None
    /\ verified = None

\* the two ends of a conversation
Peers == {1, 2}
SharedSecrets == {<<"ss", i>> : i \in 1..NSharedSecrets}
RemoteKeys == {X25519PublicKeyFrom(<<"remote", i>>) : i \in 1..NRemoteKeys}

RatchetInit ==
    /\ ratchet = [p \in Peers |-> None]
    /\ pre = [p \in Peers |-> None]
    /\ fed = [p \in Peers |-> <<>>]

\* the SecureChat instances opened on the one database path
Chats == {1, 2}
Passwords == {<<"password", i>> : i \in 1..NPasswords}
DisplayNames == {"Test User"}
DeviceId(c) == <<"device", c>>

AppInit ==
    /\ db = EmptyDb
    /\ chat = [c \in Chats |-> SecureChat_new(DeviceId(c))]
    /\ last = None
    /\ account = None
    /\ createdKeys = {}
    /\ closed = {}

\* the peer that encrypts and the peer the messages are delivered to
Sender == 1
Receiver == 2

SessInit ==
    /\ sent = <<>>
    /\ got = <<>>

\* the tasks that share one SecureChat; none has called yet
Tasks == 1..NTasks

ConvInit ==
    /\ calls = [t \in Tasks |-> None]
    /\ returned = [t \in Tasks |-> <<>>]

\* the start_network calls of a behaviour, in the order they are made
Starts == 1..MaxStarts

\* SecureChat::new: network and network_cmd_tx hold None; no call is made
StartInit ==
    /\ network = [holder |-> None, value |-> None]
    /\ network_cmd_tx = None
    /\ appLock = None
    /\ starts = [c \in Starts |-> [pc |-> "idle"]]
    /\ netTasks = [m \in Starts |-> [pc |-> "unspawned"]]

\* NetworkManager::new and start_network before anything is sent: the
\* channels are empty, run and network_event_loop are about to start
RunInit ==
    /\ swarm = 0
    /\ cmdq = [items |-> <<>>, open |-> TRUE]
    /\ evq = <<>>
    /\ chatq = <<>>
    /\ run = [pc |-> "select"]
    /\ evloop = [pc |-> "recv"]
    /\ hist = [handled |-> <<>>, received |-> <<>>, sent |-> <<>>]

\* main: the AppState holds no SecureChat; nothing is at the database path
DesktopInit == app = [chat |-> None, exists |-> FALSE]

\* no store is open yet
StoreInit ==
    /\ store = None
    /\ written = [k \in {} |-> None]
    /\ read = None

\* nothing is published, handled or serialized yet
NetInit ==
    /\ published = <<>>
    /\ received = <<>>
    /\ coded = None

Init ==
    /\ rng = 0
    /\ MsgInit
    /\ IdentInit
    /\ SealInit
    /\ SignInit
    /\ RatchetInit
    /\ AppInit
    /\ SessInit
    /\ NetInit
    /\ StoreInit
    /\ DesktopInit
    /\ ConvInit
    /\ StartInit
    /\ RunInit

\* key pairs are generated in the order of the parties' numbers
Generate(p) ==
    /\ kp[p] = None
    /\ \A q \in Parties : q < p => kp[q] # None
    /\ kp' = [kp EXCEPT ![p] = MessageKeyPair_generate(Rand(rng))]
    /\ rng' = rng + 1
    /\ UNCHANGED <<wire, rcv, ids, sealVars, signVars, ratchetVars, appVars, sessVars, netVars, storeVars, app, convVars, startVars, runVars>>

\* the public keys a sender may be handed as the recipient's
RecipientKeys ==
    {kp[p].public_key : p \in {q \in Parties : kp[q] # None}}
        \cup {X25519PublicKeyBytes(LowOrderU, 0)}

EncryptMessage(a, pk, m) ==
    /\ kp[a] # None
    /\ rng + 2 <= NParties + 2 * MaxEnvelopes
    /\ LET r == encrypt_message(kp[a], pk, m, Rand(rng), Rand(rng + 1))
       IN  wire' = [env |-> r.val, from |-> a, to |-> pk,
                    msg |-> m, changed |-> "none"]
    /\ rng' = rng + 2
    /\ rcv' = None
    /\ UNCHANGED <<kp, ids, sealVars, signVars, ratchetVars, appVars, sessVars, netVars, storeVars, app, convVars, startVars, runVars>>

\* the ways an attacker may change a public key field: flip bit 255, put a
\* point of low order, put the public key of party p
KeyChanges == {<<"bit255">>, <<"low">>} \cup {<<"party", p>> : p \in Parties}

ChangedKey(pk, c) ==
    CASE c[1] = "bit255" -> X25519PublicKeyBytes(pk[2], 1 - pk[3])
      [] c[1] = "low" -> X25519PublicKeyBytes(LowOrderU, 0)
      [] c[1] = "party" -> kp[c[2]].public_key

CanChangeKey(pk, c) ==
    /\ c[1] = "party" => kp[c[2]] # None
    /\ ChangedKey(pk, c) # pk

TamperCiphertext(j) ==
    /\ wire # None /\ wire.changed = "none"
    /\ wire' = [wire EXCEPT !.env.ciphertext = FlipCtBit(@, j),
                            !.changed = "ciphertext"]
    /\ rcv' = None
    /\ UNCHANGED <<rng, kp, ids, sealVars, signVars, ratchetVars, appVars, sessVars, netVars, storeVars, app, convVars, startVars, runVars>>

TamperNonce(j) ==
    /\ wire # None /\ wire.changed = "none"
    /\ wire' = [wire EXCEPT !.env.nonce = FlipBit(@, j), !.changed = "nonce"]
    /\ rcv' = None
    /\ UNCHANGED <<rng, kp, ids, sealVars, signVars, ratchetVars, appVars, sessVars, netVars, storeVars, app, convVars, startVars, runVars>>

TamperSender(c) ==
    /\ wire # None /\ wire.changed = "none"
    /\ CanChangeKey(wire.env.sender_pubkey, c)
    /\ wire' = [wire EXCEPT !.env.sender_pubkey = ChangedKey(@, c),
                            !.changed = "sender_pubkey"]
    /\ rcv' = None
    /\ UNCHANGED <<rng, kp, ids, sealVars, signVars, ratchetVars, appVars, sessVars, netVars, storeVars, app, convVars, startVars, runVars>>

TamperEphemeral(c) ==
    /\ wire # None /\ wire.changed = "none"
    /\ CanChangeKey(wire.env.ephemeral_pubkey, c)
    /\ wire' = [wire EXCEPT !.env.ephemeral_pubkey = ChangedKey(@, c),
                            !.changed = "ephemeral_pubkey"]
    /\ rcv' = None
    /\ UNCHANGED <<rng, kp, ids, sealVars, signVars, ratchetVars, appVars, sessVars, netVars, storeVars, app, convVars, startVars, runVars>>

DecryptMessage(p) ==
    /\ kp[p] # None
    /\ wire # None
    /\ rcv' = [by |-> p, res |-> decrypt_message(kp[p], wire.env)]
    /\ UNCHANGED <<rng, kp, wire, ids, sealVars, signVars, ratchetVars, appVars, sessVars, netVars, storeVars, app, convVars, startVars, runVars>>

NextMsg ==
    \/ \E p \in Parties : Generate(p)
    \/ \E a \in Parties, m \in Messages : \E pk \in RecipientKeys :
         EncryptMessage(a, pk, m)
    \/ \E j \in 1..FlipBits : TamperCiphertext(j)
    \/ \E j \in 1..FlipBits : TamperNonce(j)
    \/ \E c \in KeyChanges : TamperSender(c)
    \/ \E c \in KeyChanges : TamperEphemeral(c)
    \/ \E p \in Parties : DecryptMessage(p)

SpecMsg == Init /\ [][NextMsg]_vars

(***************************************************************************)
(* The identity specifications: identity key pairs are generated; under    *)
(* SpecSeal one is sealed under a master key and the sealed form is opened *)
(* under any master key; under SpecSign one signs a message and any public *)
(* key, message and signature, possibly changed in one bit, are verified.  *)
(***************************************************************************)
\* identity key pairs are generated in the order of their numbers
GenerateIdentity(i) ==
    /\ ids[i] = None
    /\ \A j \in Idents : j < i => ids[j] # None
    /\ ids' = [ids EXCEPT ![i] = IdentityKeyPair_generate(Rand(rng))]
    /\ rng' = rng + 1
    /\ UNCHANGED <<msgVars, sealVars, signVars, ratchetVars, appVars, sessVars, netVars, storeVars, app, convVars, startVars, runVars>>

\* MasterKey::generate_random_bytes, as test_identity_key_encryption uses it
GenerateMasterKey(k) ==
    /\ mks[k] = None
    /\ \A j \in MasterKeys : j < k => mks[j] # None
    /\ mks' = [mks EXCEPT ![k] = Some(Rand(rng))]
    /\ rng' = rng + 1
    /\ UNCHANGED <<msgVars, ids, sealed, opened, signVars, ratchetVars, appVars, sessVars, netVars, storeVars, app, convVars, startVars, runVars>>

EncryptIdentity(i, k) ==
    /\ ids[i] # None
    /\ mks[k] # None
    /\ rng + 1 <= NIdents + NMasterKeys + MaxSeals
    /\ sealed' = [by |-> i, master_key |-> mks[k].some,
                  enc |-> IdentityKeyPair_encrypt(ids[i], mks[k].some, Rand(rng)).val]
    /\ opened' = None
    /\ rng' = rng + 1
    /\ UNCHANGED <<msgVars, ids, mks, signVars, ratchetVars, appVars, sessVars, netVars, storeVars, app, convVars, startVars, runVars>>

DecryptIdentity(k) ==
    /\ sealed # None
    /\ mks[k] # None
    /\ opened' = [master_key |-> mks[k].some,
                  res |-> IdentityKeyPair_decrypt(sealed.enc, mks[k].some)]
    /\ UNCHANGED <<rng, msgVars, ids, mks, sealed, signVars, ratchetVars, appVars, sessVars, netVars, storeVars, app, convVars, startVars, runVars>>

NextSeal ==
    \/ \E i \in Idents : GenerateIdentity(i)
    \/ \E k \in MasterKeys : GenerateMasterKey(k)
    \/ \E i \in Idents, k \in MasterKeys : EncryptIdentity(i, k)
    \/ \E k \in MasterKeys : DecryptIdentity(k)

SpecSeal == Init /\ [][NextSeal]_vars

Sign(i, m) ==
    /\ ids[i] # None
    /\ signed' = [by |-> i, msg |-> m, sig |-> IdentityKeyPair_sign(ids[i], m)]
    /\ verified' = None
    /\ UNCHANGED <<rng, msgVars, ids, sealVars, ratchetVars, appVars, sessVars, netVars, storeVars, app, convVars, startVars, runVars>>

\* the signatures handed to verify: the one made, or it with one bit flipped
Signatures == {signed.sig} \cup {FlipSigBit(signed.sig, j) : j \in 1..FlipBits}

Verify(i, m, sig) ==
    /\ ids[i] # None
    /\ verified' = [pk |-> ids[i].public_key, msg |-> m, sig |-> sig,
                    res |-> IdentityKeyPair_verify(ids[i].public_key, m, sig)]
    /\ UNCHANGED <<rng, msgVars, ids, sealVars, signed, ratchetVars, appVars, sessVars, netVars, storeVars, app, convVars, startVars, runVars>>

NextSign ==
    \/ \E i \in Idents : GenerateIdentity(i)
    \/ \E i \in Idents, m \in Messages : Sign(i, m)
    \/ /\ signed # None
       /\ \E i \in Idents, m \in Messages : \E sig \in Signatures : Verify(i, m, sig)

SpecSign == Init /\ [][NextSign]_vars

(***************************************************************************)
(* The ratchet specification: each of two peers initializes a DoubleRatchet*)
(* from a shared secret and performs ratchet steps, each with a remote     *)
(* public key.                                                             *)
(***************************************************************************)
Initialize(p, ss) ==
    /\ ratchet[p] = None
    /\ ratchet' = [ratchet EXCEPT ![p] = DoubleRatchet_initialize(ss)]
    /\ UNCHANGED <<rng, msgVars, ids, sealVars, signVars, pre, fed, appVars, sessVars, netVars, storeVars, app, convVars, startVars, runVars>>

Ratchet(p, pk) ==
    /\ ratchet[p] # None
    /\ Len(fed[p]) < MaxSteps
    /\ ratchet' = [ratchet EXCEPT ![p] = DoubleRatchet_ratchet(@, pk)]
    /\ pre' = [pre EXCEPT ![p] = ratchet[p]]
    /\ fed' = [fed EXCEPT ![p] = Append(@, pk)]
    /\ UNCHANGED <<rng, msgVars, ids, sealVars, signVars, appVars, sessVars, netVars, storeVars, app, convVars, startVars, runVars>>

NextRatchet ==
    \/ \E p \in Peers, ss \in SharedSecrets : Initialize(p, ss)
    \/ \E p \in Peers, pk \in RemoteKeys : Ratchet(p, pk)

SpecRatchet == Init /\ [][NextRatchet]_vars

(***************************************************************************)
(* The skipped-key specification: the ratchet specification with a caller  *)
(* of the library that buffers message keys in skipped_message_keys, a     *)
(* public field that no function of the crate writes after initialize.     *)
(***************************************************************************)
\* a caller that skips a message pushes (n, key) on the public field
\* skipped_message_keys of the receiving DoubleRatchet, n counting the
\* messages skipped so far
BufferSkippedKey(p) ==
    /\ ratchet[p] # None
    /\ Len(ratchet[p].skipped_message_keys) < MaxSkipped
    /\ LET n == Len(ratchet[p].skipped_message_keys) + 1
       IN  ratchet' = [ratchet EXCEPT ![p].skipped_message_keys =
                           Append(@, <<n, <<"message key", n>>>>)]
    /\ UNCHANGED <<rng, msgVars, ids, sealVars, signVars, pre, fed, appVars, sessVars, netVars, storeVars, app, convVars, startVars, runVars>>

NextSkipped ==
    \/ NextRatchet
    \/ BufferSkippedKey(Receiver)

SpecSkipped == Init /\ [][NextSkipped]_vars

(***************************************************************************)
(* The session specification: two peers generate their message key pairs   *)
(* and set up their DoubleRatchets; then one encrypts messages for the     *)
(* other, which are delivered in any order and any number of times.  The   *)
(* only operations the code has for this are encrypt_message and           *)
(* decrypt_message, and neither takes the DoubleRatchet.                   *)
(***************************************************************************)
SendMessage(m) ==
    /\ kp[Sender] # None /\ kp[Receiver] # None
    /\ ratchet[Sender] # None /\ ratchet[Receiver] # None
    /\ Len(sent) < MaxSent
    /\ LET r == encrypt_message(kp[Sender], kp[Receiver].public_key, m,
                                Rand(rng), Rand(rng + 1))
       IN  sent' = Append(sent, [env |-> r.val, msg |-> m])
    /\ rng' = rng + 2
    /\ UNCHANGED <<got, msgVars, ids, sealVars, signVars, ratchetVars, appVars, netVars, storeVars, app, convVars, startVars, runVars>>

DeliverMessage(i) ==
    /\ Len(got) < MaxDeliveries
    /\ UNCHANGED <<rng, sent, msgVars, ids, sealVars, signVars, ratchetVars, appVars, netVars, storeVars, app, convVars, startVars, runVars>>
    /\ got' = Append(got, [idx |-> i,
                           res |-> decrypt_message(kp[Receiver], sent[i].env),
                           before |-> ratchet[Receiver],
                           after |-> ratchet'[Receiver]])

NextSession ==
    \/ \E p \in Parties : sent = <<>> /\ Generate(p)
    \/ \E p \in Peers, ss \in SharedSecrets : sent = <<>> /\ Initialize(p, ss)
    \/ \E p \in Peers, pk \in RemoteKeys : sent = <<>> /\ Ratchet(p, pk)
    \/ \E m \in Messages : SendMessage(m)
    \/ \E i \in 1..Len(sent) : DeliverMessage(i)

SpecSession == Init /\ [][NextSession]_vars

(***************************************************************************)
(* The account specification: SecureChat instances on one database path    *)
(* create and unlock the account.                                          *)
(***************************************************************************)
CreateAccount(c, password, display_name, fail) ==
    /\ rng + 12 <= MaxDraws
    /\ LET r == create_account(chat[c], db, password, display_name, rng, fail)
       IN  /\ chat' = [chat EXCEPT ![c] = r.self]
           /\ db' = r.db
           /\ rng' = rng + r.draws
           /\ last' = [op |-> "create_account", chat |-> c,
                       password |-> password, res |-> r.res]
           /\ account' = IF fail = "create"
                         THEN account
                         ELSE [password |-> password,
                               master_key |-> r.self.storage.some.master_key]
           /\ createdKeys' = IF r.res.ok
                             THEN createdKeys \cup {get_public_key(r.self).val}
                             ELSE createdKeys
    /\ UNCHANGED <<closed, msgVars, ids, sealVars, signVars, ratchetVars, sessVars, netVars, storeVars, app, convVars, startVars, runVars>>

UnlockAccount(c, password) ==
    /\ rng + 1 <= MaxDraws
    /\ LET r == unlock_account(chat[c], db, password, rng)
       IN  /\ chat' = [chat EXCEPT ![c] = r.self]
           /\ rng' = rng + r.draws
           /\ last' = [op |-> "unlock_account", chat |-> c,
                       password |-> password, res |-> r.res]
    /\ UNCHANGED <<db, account, createdKeys, closed>>
    /\ UNCHANGED <<msgVars, ids, sealVars, signVars, ratchetVars, sessVars, netVars, storeVars, app, convVars, startVars, runVars>>

Next ==
    \/ \E c \in Chats, password \in Passwords, display_name \in DisplayNames,
          fail \in FailPoints :
         CreateAccount(c, password, display_name, fail)
    \/ \E c \in Chats, password \in Passwords : UnlockAccount(c, password)

Spec == Init /\ [][Next]_vars

(***************************************************************************)
(* The chat specification: the calls a front end makes on SecureChat       *)
(* instances that share one database path.  A call that reads or writes    *)
(* the store is made on an instance whose storage is open.                 *)
(***************************************************************************)
\* what callers pass
ContactPublicKeys == {<<"bytes", 1>>}
Texts == {"hello"}
SettingNames == {"theme"}
SettingValues == {"dark"}
UnknownId == <<"id", <<"unknown", 0>>>>

\* n more draws fit the budget of the chat specification
Affordable(n) == rng + n <= MaxChatDraws

\* an instance that can serve calls on the store
Open(c) == c \notin closed /\ chat[c].storage # None

\* the ids a caller has seen, and one it has not
KnownContactIds(c) ==
    LET all == get_all_contacts(chat[c].storage.some, db)
    IN  (IF all.ok THEN {contact.id : contact \in all.val} ELSE {}) \cup {UnknownId}

KnownConversationIds(c) ==
    LET all == get_all_conversations(chat[c].storage.some, db)
    IN  (IF all.ok THEN {conv.id : conv \in all.val} ELSE {}) \cup {UnknownId}

AddContact(c, public_key, display_name, io_ok) ==
    /\ Open(c)
    /\ Affordable(3)
    /\ LET r == add_contact(chat[c], db, public_key, display_name, rng, io_ok)
       IN  /\ db' = r.db
           /\ rng' = rng + r.draws
           /\ last' = [op |-> "add_contact", chat |-> c, res |-> r.res]
    /\ UNCHANGED <<chat, account, createdKeys, closed>>
    /\ UNCHANGED <<msgVars, ids, sealVars, signVars, ratchetVars, sessVars, netVars, storeVars, app, convVars, startVars, runVars>>

GetOrCreateConversation(c, contact_id, io_ok) ==
    /\ Open(c)
    /\ Affordable(3)
    /\ LET r == get_or_create_conversation(chat[c], db, contact_id, rng, io_ok)
       IN  /\ db' = r.db
           /\ rng' = rng + r.draws
           /\ last' = [op |-> "get_or_create_conversation", chat |-> c,
                       res |-> r.res]
    /\ UNCHANGED <<chat, account, createdKeys, closed>>
    /\ UNCHANGED <<msgVars, ids, sealVars, signVars, ratchetVars, sessVars, netVars, storeVars, app, convVars, startVars, runVars>>

SendTextMessage(c, conversation_id, text, io_ok) ==
    /\ Open(c)
    /\ Affordable(3)
    /\ LET r == send_text_message(chat[c], db, conversation_id, text, rng, io_ok)
       IN  /\ db' = r.db
           /\ rng' = rng + r.draws
           /\ last' = [op |-> "send_text_message", chat |-> c,
                       conversation_id |-> conversation_id,
                       before |-> db, res |-> r.res]
    /\ UNCHANGED <<chat, account, createdKeys, closed>>
    /\ UNCHANGED <<msgVars, ids, sealVars, signVars, ratchetVars, sessVars, netVars, storeVars, app, convVars, startVars, runVars>>

SetSetting(c, key, value, io_ok) ==
    /\ Open(c)
    /\ LET r == set_setting(chat[c].storage.some, db, key, value, io_ok)
       IN  /\ db' = r.db
           /\ last' = [op |-> "set_setting", chat |-> c, res |-> r.res]
    /\ UNCHANGED <<rng, chat, account, createdKeys, closed>>
    /\ UNCHANGED <<msgVars, ids, sealVars, signVars, ratchetVars, sessVars, netVars, storeVars, app, convVars, startVars, runVars>>

ExportBackup(c, password) ==
    /\ Open(c)
    /\ Affordable(4)
    /\ LET r == export_backup(chat[c], db, password, rng)
       IN  /\ rng' = rng + r.draws
           /\ last' = [op |-> "export_backup", chat |-> c, res |-> r.res,
                       backup_key |-> r.master_key]
    /\ UNCHANGED <<db, chat, account, createdKeys, closed>>
    /\ UNCHANGED <<msgVars, ids, sealVars, signVars, ratchetVars, sessVars, netVars, storeVars, app, convVars, startVars, runVars>>

\* SecureChat::close: the instance is consumed; stop_network has nothing to
\* stop and the fields are dropped.  Dropping the storage writes nothing to
\* its master_key, a plain [u8; 32]; dropping a SigningKey or a StaticSecret
\* zeroes it when the dalek crates are built with their zeroize feature,
\* which the sources do not settle.
Close(c, zeroize) ==
    /\ c \notin closed
    /\ closed' = closed \cup {c}
    /\ chat' = [chat EXCEPT ![c] = drop(@, zeroize)]
    /\ last' = [op |-> "close", chat |-> c, res |-> Ok(Unit)]
    /\ UNCHANGED <<rng, db, account, createdKeys>>
    /\ UNCHANGED <<msgVars, ids, sealVars, signVars, ratchetVars, sessVars, netVars, storeVars, app, convVars, startVars, runVars>>

NextChat ==
    \/ \E c \in Chats, password \in Passwords, display_name \in DisplayNames,
          fail \in FailPoints :
         c \notin closed /\ Affordable(12)
             /\ CreateAccount(c, password, display_name, fail)
    \/ \E c \in Chats, password \in Passwords :
         c \notin closed /\ Affordable(1) /\ UnlockAccount(c, password)
    \/ \E c \in Chats, public_key \in ContactPublicKeys,
          display_name \in DisplayNames, io_ok \in BOOLEAN :
         AddContact(c, public_key, display_name, io_ok)
    \/ \E c \in Chats, io_ok \in BOOLEAN :
         Open(c) /\ \E contact_id \in KnownContactIds(c) :
             GetOrCreateConversation(c, contact_id, io_ok)
    \/ \E c \in Chats, text \in Texts, io_ok \in BOOLEAN :
         Open(c) /\ \E conversation_id \in KnownConversationIds(c) :
             SendTextMessage(c, conversation_id, text, io_ok)
    \/ \E c \in Chats, key \in SettingNames, value \in SettingValues,
          io_ok \in BOOLEAN :
         SetSetting(c, key, value, io_ok)
    \/ \E c \in Chats, password \in Passwords : ExportBackup(c, password)
    \/ \E c \in Chats, zeroize \in BOOLEAN : Close(c, zeroize)

SpecChat == Init /\ [][NextChat]_vars

(***************************************************************************)
(* The network specification: protocol messages are serialized and         *)
(* published on the topic, the bytes published are handled as gossipsub    *)
(* messages in any order and any number of times, and message envelopes    *)
(* are serialized and deserialized.  Timestamps are left out.              *)
(***************************************************************************)
\* peers a gossipsub message may come from
PeerIds == {"peer1"}

\* an EncryptedMessage, as encrypt_message makes it
EnvelopeContent ==
    encrypt_message(MessageKeyPair_generate(<<"secret", 1>>),
                    X25519PublicKeyFrom(<<"secret", 2>>),
                    <<"utf8", "hello">>, <<"secret", 3>>, <<"nonce", 1>>).val

\* the MessageEnvelopes of the model
Envelopes ==
    {[id |-> <<"id", <<"envelope", 1>>>>,
      sender_id |-> <<"id", <<"sender", 1>>>>,
      recipient_id |-> <<"id", <<"recipient", 1>>>>,
      encrypted_content |-> EnvelopeContent,
      signature |-> signature,
      reply_to |-> reply_to] :
        signature \in {<<>>, <<"sig", 1>>},
        reply_to \in {None, Some(<<"id", <<"envelope", 0>>>>)}}

KeyBundle ==
    [type |-> "KeyBundle",
     identity_key |-> <<"bytes", 1>>,
     signed_prekey |-> <<"bytes", 2>>,
     signed_prekey_signature |-> <<"sig", 2>>,
     one_time_prekeys |-> <<>>]

\* the ProtocolMessages of the model: every variant
ProtocolMessages ==
    {KeyBundle}
        \cup {[type |-> "Encrypted", envelope |-> e] : e \in Envelopes}
        \cup {[type |-> "DeliveryReceipt", message_id |-> <<"id", <<"envelope", 1>>>>]}
        \cup {[type |-> "ReadReceipt", message_id |-> <<"id", <<"envelope", 1>>>>]}
        \cup {[type |-> "Typing", conversation_id |-> UnknownId, is_typing |-> b] :
                b \in BOOLEAN}
        \cup {[type |-> "ProfileUpdate", display_name |-> n,
               status_message |-> None, avatar_hash |-> None] :
                n \in {None} \cup {Some(d) : d \in DisplayNames}}
        \cup {[type |-> "ContactRequest", display_name |-> d, message |-> "hello",
               key_bundle |-> KeyBundle] : d \in DisplayNames}
        \cup {[type |-> "ContactResponse", accepted |-> b,
               key_bundle |-> IF b THEN Some(KeyBundle) ELSE None] : b \in BOOLEAN}
        \cup {[type |-> "SyncRequest", device_id |-> DeviceId(1),
               nonce |-> <<"nonce", 2>>]}
        \cup {[type |-> "SyncData", conversations |-> <<>>, contacts |-> <<>>,
               settings |-> <<>>]}

PublishMessage(peer_id, message) ==
    /\ Len(published) < MaxPublished
    /\ published' = Append(published,
                           [peer_id |-> peer_id,
                            message |-> message,
                            data |-> handle_command_SendMessage(peer_id, message).val,
                            transport |->
                                handle_command_SendMessage_transport(peer_id,
                                                                     DefaultTopic)])
    /\ UNCHANGED <<received, coded>>
    /\ UNCHANGED <<rng, msgVars, ids, sealVars, signVars, ratchetVars, appVars, sessVars, storeVars, app, convVars, startVars, runVars>>

ReceiveMessage(i, propagation_source) ==
    /\ Len(received) < MaxReceived
    /\ LET handled == handle_swarm_event_Message(propagation_source, published[i].data)
       IN  received' = Append(received,
                              [of |-> i,
                               peer_id |-> propagation_source,
                               event |-> handled.event,
                               warn |-> handled.warn])
    /\ UNCHANGED <<published, coded>>
    /\ UNCHANGED <<rng, msgVars, ids, sealVars, signVars, ratchetVars, appVars, sessVars, storeVars, app, convVars, startVars, runVars>>

SerializeEnvelope(e) ==
    /\ coded' = [value |-> e, bytes |-> MessageEnvelope_serialize(e), back |-> None]
    /\ UNCHANGED <<published, received>>
    /\ UNCHANGED <<rng, msgVars, ids, sealVars, signVars, ratchetVars, appVars, sessVars, storeVars, app, convVars, startVars, runVars>>

DeserializeEnvelope ==
    /\ coded # None /\ coded.bytes.ok /\ coded.back = None
    /\ coded' = [coded EXCEPT !.back = Some(MessageEnvelope_deserialize(coded.bytes.val))]
    /\ UNCHANGED <<published, received>>
    /\ UNCHANGED <<rng, msgVars, ids, sealVars, signVars, ratchetVars, appVars, sessVars, storeVars, app, convVars, startVars, runVars>>

NextNet ==
    \/ \E peer_id \in {None} \cup {Some(p) : p \in PeerIds},
          message \in ProtocolMessages :
         PublishMessage(peer_id, message)
    \/ \E i \in 1..Len(published), propagation_source \in PeerIds :
         ReceiveMessage(i, propagation_source)
    \/ \E e \in Envelopes : SerializeEnvelope(e)
    \/ DeserializeEnvelope

SpecNet == Init /\ [][NextNet]_vars

(***************************************************************************)
(* The store specification: a SecureStorage is created, values are put and *)
(* read back through its typed calls, and the record store, which is not   *)
(* trusted, may change the salt bytes of a blob or cut a blob short.       *)
(***************************************************************************)
\* the values callers store: a profile, a contact and a message
StoreProfile(display_name) ==
    [key |-> ProfileKey,
     value |-> [display_name |-> display_name,
                status_message |-> None,
                avatar |-> None]]

StoreContact(display_name) ==
    LET contact == Contact_new(<<"id", <<"contact", 1>>>>, display_name, <<"bytes", 1>>)
    IN  [key |-> ContactKey(contact.id), value |-> contact]

StoreMessage(text) ==
    LET message == [id |-> <<"id", <<"message", 1>>>>,
                    conversation_id |-> <<"id", <<"conversation", 1>>>>,
                    sender_id |-> "self",
                    is_outgoing |-> TRUE,
                    content |-> [type |-> "Text", text |-> text],
                    sent |-> FALSE, delivered |-> FALSE, read |-> FALSE,
                    reply_to |-> None]
    IN  [key |-> MessageKey(message.conversation_id, message.id), value |-> message]

Stores ==
    {StoreProfile(d) : d \in DisplayNames}
        \cup {StoreContact(d) : d \in DisplayNames}
        \cup {StoreMessage(t) : t \in Texts}

\* the lengths a blob may be cut to: below and at the 28 bytes of salt and
\* nonce, and around the 16 bytes of the tag that follow them
CutLengths == {0, 27, 28, 28 + TagSize - 1, 28 + TagSize}

CreateStore(password) ==
    /\ store = None
    /\ LET r == SecureStorage_create(db, password, Rand(rng), Rand(rng + 1),
                                     Rand(rng + 2), TRUE)
       IN  /\ store' = Some(r.res.val)
           /\ db' = r.db
    /\ rng' = rng + 3
    /\ UNCHANGED <<written, read, chat, last, account, createdKeys, closed>>
    /\ UNCHANGED <<msgVars, ids, sealVars, signVars, ratchetVars, sessVars, netVars, app, convVars, startVars, runVars>>

\* store_profile, store_contact, store_message: each is put under its key
Put(s, io_ok) ==
    /\ store # None
    /\ rng + 2 <= MaxStoreDraws
    /\ LET r == SecureStorage_put(store.some, db, s.key, s.value,
                                  Rand(rng), Rand(rng + 1), io_ok)
       IN  /\ db' = r.db
           /\ written' = IF r.res.ok
                         THEN [k \in DOMAIN written \cup {s.key} |->
                                 IF k = s.key
                                 THEN [value |-> s.value, salt |-> FALSE, cut |-> None]
                                 ELSE written[k]]
                         ELSE written
    /\ rng' = rng + 2
    /\ UNCHANGED <<store, read, chat, last, account, createdKeys, closed>>
    /\ UNCHANGED <<msgVars, ids, sealVars, signVars, ratchetVars, sessVars, netVars, app, convVars, startVars, runVars>>

\* get_profile, get_contact, get_message: each is get under its key
Get(k) ==
    /\ store # None
    /\ read' = [key |-> k,
                data |-> db_get(db, k),
                res |-> IF k[1] = "msg:"
                        THEN get_message(store.some, db, k[2][1], k[2][3])
                        ELSE SecureStorage_get(store.some, db, k)]
    /\ UNCHANGED <<rng, store, written, appVars>>
    /\ UNCHANGED <<msgVars, ids, sealVars, signVars, ratchetVars, sessVars, netVars, app, convVars, startVars, runVars>>

\* the record store changes one bit of the 16 salt bytes of a blob
ChangeSalt(k, j) ==
    /\ written[k].cut = None /\ ~written[k].salt
    /\ db' = [db EXCEPT ![k] = <<"blob", FlipBit(@[2], j), @[3], @[4]>>]
    /\ written' = [written EXCEPT ![k].salt = TRUE]
    /\ UNCHANGED <<rng, store, read, chat, last, account, createdKeys, closed>>
    /\ UNCHANGED <<msgVars, ids, sealVars, signVars, ratchetVars, sessVars, netVars, app, convVars, startVars, runVars>>

\* the record store returns only the first n bytes of a blob
Truncate(k, n) ==
    /\ written[k].cut = None
    /\ db' = [db EXCEPT ![k] = Truncated(@, n)]
    /\ written' = [written EXCEPT ![k].cut = Some(n)]
    /\ UNCHANGED <<rng, store, read, chat, last, account, createdKeys, closed>>
    /\ UNCHANGED <<msgVars, ids, sealVars, signVars, ratchetVars, sessVars, netVars, app, convVars, startVars, runVars>>

NextStore ==
    \/ \E password \in Passwords : CreateStore(password)
    \/ \E s \in Stores, io_ok \in BOOLEAN : Put(s, io_ok)
    \/ \E k \in DOMAIN written : Get(k)
    \/ \E k \in DOMAIN written, j \in 1..FlipBits : ChangeSalt(k, j)
    \/ \E k \in DOMAIN written, n \in CutLengths : Truncate(k, n)

SpecStore == Init /\ [][NextStore]_vars

(***************************************************************************)
(* The short-input specification: what the decoders do with bytes that     *)
(* were cut short, the blobs of the store specification and an envelope    *)
(* whose ciphertext the network delivers in part.                          *)
(***************************************************************************)
\* the ciphertext of the envelope in flight loses all but its first n bytes
TruncateCiphertext(n) ==
    /\ wire # None /\ wire.changed = "none"
    /\ wire' = [wire EXCEPT !.env.ciphertext = First(n, @),
                            !.changed = "truncated"]
    /\ rcv' = None
    /\ UNCHANGED <<rng, kp, ids, sealVars, signVars, ratchetVars, appVars, sessVars, netVars, storeVars, app, convVars, startVars, runVars>>

NextShort ==
    \/ NextStore
    \/ \E p \in Parties : Generate(p)
    \/ \E a \in Parties, m \in Messages : \E pk \in RecipientKeys :
         EncryptMessage(a, pk, m)
    \/ \E n \in {0, TagSize - 1} : TruncateCiphertext(n)
    \/ \E p \in Parties : DecryptMessage(p)

SpecShort == Init /\ [][NextShort]_vars

(***************************************************************************)
(* The desktop specification: the window creates and unlocks the account   *)
(* through the commands, and between commands the database, which is not   *)
(* trusted, may hand back a changed master-key envelope or identity.       *)
(***************************************************************************)
\* what may happen to a stored value: one bit of its ciphertext changes, or
\* all its bytes are lost
Corruptions == {"flip", "cut"}

DesktopCreateAccount(password, display_name, fail) ==
    /\ rng + 13 <= MaxDesktopDraws
    /\ LET r == desktop_create_account(db, password, display_name, rng, fail)
       IN  /\ app' = [chat |-> IF r.chat # None THEN r.chat ELSE app.chat,
                      exists |-> TRUE]
           /\ db' = r.db
           /\ rng' = rng + r.draws
           /\ last' = [op |-> "desktop.create_account", password |-> password,
                       core |-> r.core, ret |-> r.ret]
    /\ UNCHANGED <<chat, account, createdKeys, closed>>
    /\ UNCHANGED <<msgVars, ids, sealVars, signVars, ratchetVars, sessVars, netVars, storeVars, convVars, startVars, runVars>>

DesktopUnlockAccount(password) ==
    /\ rng + 2 <= MaxDesktopDraws
    /\ LET r == desktop_unlock_account(app.exists, db, password, rng)
       IN  /\ app' = [app EXCEPT !.chat = IF r.chat # None THEN r.chat ELSE @]
           /\ rng' = rng + r.draws
           /\ last' = [op |-> "desktop.unlock_account", password |-> password,
                       core |-> r.core, ret |-> r.ret]
    /\ UNCHANGED <<db, chat, account, createdKeys, closed>>
    /\ UNCHANGED <<msgVars, ids, sealVars, signVars, ratchetVars, sessVars, netVars, storeVars, convVars, startVars, runVars>>

\* the stored master-key envelope comes back changed
CorruptMasterKey(how) ==
    /\ PREFIX_MASTER_KEY \in DOMAIN db
    /\ db[PREFIX_MASTER_KEY][1] = "bincode"
    /\ db[PREFIX_MASTER_KEY][2].encrypted_key[5] = {}
    /\ db' = [db EXCEPT ![PREFIX_MASTER_KEY] =
                IF how = "flip"
                THEN <<"bincode", [@[2] EXCEPT !.encrypted_key = FlipCtBit(@, 1)]>>
                ELSE First(0, @)]
    /\ UNCHANGED <<rng, chat, last, account, createdKeys, closed>>
    /\ UNCHANGED <<msgVars, ids, sealVars, signVars, ratchetVars, sessVars, netVars, storeVars, app, convVars, startVars, runVars>>

\* the stored identity comes back changed
CorruptIdentity(how) ==
    /\ IdentityKey \in DOMAIN db
    /\ db[IdentityKey][1] = "blob"
    /\ db[IdentityKey][4][1] = "gcm" /\ db[IdentityKey][4][5] = {}
    /\ db' = [db EXCEPT ![IdentityKey] =
                IF how = "flip"
                THEN <<"blob", @[2], @[3], FlipCtBit(@[4], 1)>>
                ELSE First(0, @)]
    /\ UNCHANGED <<rng, chat, last, account, createdKeys, closed>>
    /\ UNCHANGED <<msgVars, ids, sealVars, signVars, ratchetVars, sessVars, netVars, storeVars, app, convVars, startVars, runVars>>

NextDesktop ==
    \/ \E password \in Passwords, display_name \in DisplayNames, fail \in FailPoints :
         DesktopCreateAccount(password, display_name, fail)
    \/ \E password \in Passwords : DesktopUnlockAccount(password)
    \/ \E how \in Corruptions : CorruptMasterKey(how)
    \/ \E how \in Corruptions : CorruptIdentity(how)

SpecDesktop == Init /\ [][NextDesktop]_vars

(***************************************************************************)
(* The conversation specification: tasks call get_or_create_conversation   *)
(* on one SecureChat whose storage is open.  The call locks the storage to *)
(* look the conversation up, releases the lock, and when it found none     *)
(* locks again to store the one it made; each lock().await is a point      *)
(* where another task may run.                                             *)
(***************************************************************************)
\* the contact ids callers pass
ContactIds == {<<"id", <<"contact", i>>>> : i \in 1..2}

\* the SecureChat the tasks share
SharedChat == [SecureChat_new(DeviceId(1)) EXCEPT !.storage = store]

\* the call starts and waits for the storage lock
BeginCall(t, contact_id) ==
    /\ store # None
    /\ calls[t] = None
    /\ Len(returned[t]) < MaxCalls
    /\ calls' = [calls EXCEPT ![t] = [pc |-> "lookup", contact_id |-> contact_id]]
    /\ UNCHANGED <<rng, returned, appVars, storeVars>>
    /\ UNCHANGED <<msgVars, ids, sealVars, signVars, ratchetVars, sessVars, netVars, app, startVars, runVars>>

\* under the lock: get_conversation_by_contact; the call returns what it
\* found, or the error, or goes on to make a conversation
Lookup(t) ==
    /\ calls[t] # None /\ calls[t].pc = "lookup"
    /\ LET found == get_conversation_by_contact(store.some, db, calls[t].contact_id)
           ret == [contact_id |-> calls[t].contact_id,
                   res |-> IF found.ok THEN Ok(found.val.some) ELSE found]
       IN  IF found.ok /\ found.val = None
           THEN /\ calls' = [calls EXCEPT ![t].pc = "store"]
                /\ UNCHANGED returned
           ELSE /\ calls' = [calls EXCEPT ![t] = None]
                /\ returned' = [returned EXCEPT ![t] = Append(@, ret)]
    /\ UNCHANGED <<rng, appVars, storeVars>>
    /\ UNCHANGED <<msgVars, ids, sealVars, signVars, ratchetVars, sessVars, netVars, app, startVars, runVars>>

\* Conversation::new, then under the lock again: store_conversation
StoreNew(t, io_ok) ==
    /\ calls[t] # None /\ calls[t].pc = "store"
    /\ rng + 3 <= MaxConvDraws
    /\ LET conversation == Conversation_new(generate_id(rng), calls[t].contact_id)
           stored == store_conversation(store.some, db, conversation,
                                        Rand(rng + 1), Rand(rng + 2), io_ok)
       IN  /\ db' = stored.db
           /\ returned' = [returned EXCEPT ![t] =
                             Append(@, [contact_id |-> calls[t].contact_id,
                                        res |-> IF stored.res.ok
                                                THEN Ok(conversation)
                                                ELSE stored.res])]
    /\ calls' = [calls EXCEPT ![t] = None]
    /\ rng' = rng + 3
    /\ UNCHANGED <<chat, last, account, createdKeys, closed, storeVars>>
    /\ UNCHANGED <<msgVars, ids, sealVars, signVars, ratchetVars, sessVars, netVars, app, startVars, runVars>>

NextConv ==
    \/ \E password \in Passwords : CreateStore(password)
    \/ \E t \in Tasks, contact_id \in ContactIds : BeginCall(t, contact_id)
    \/ \E t \in Tasks : Lookup(t)
    \/ \E t \in Tasks, io_ok \in BOOLEAN : StoreNew(t, io_ok)

SpecConv == Init /\ [][NextConv]_vars

(***************************************************************************)
(* The profile specification: tasks call update_profile on one SecureChat  *)
(* whose storage is open, chat[1].  The call locks the storage to read the *)
(* profile, releases the lock, changes its copy, locks again to store it   *)
(* and then takes the write lock of the profile field; each await is a     *)
(* point where another task may run.                                       *)
(***************************************************************************)
\* what callers pass
StatusMessages == {"busy"}
ProfileArgs ==
    [display_name : {None} \cup {Some(d) : d \in DisplayNames},
     status_message : {None} \cup {Some(m) : m \in StatusMessages}]

\* the profile update_profile starts from when the store has none
AnonymousProfile ==
    [display_name |-> "Anonymous", status_message |-> None, avatar |-> None]

\* the call starts and waits for the storage lock
UpdateBegin(t, args) ==
    /\ store # None
    /\ calls[t] = None
    /\ Len(returned[t]) < MaxCalls
    /\ calls' = [calls EXCEPT ![t] = [pc |-> "get_profile", args |-> args]]
    /\ UNCHANGED <<rng, returned, appVars, storeVars>>
    /\ UNCHANGED <<msgVars, ids, sealVars, signVars, ratchetVars, sessVars, netVars, app, startVars, runVars>>

\* under the lock: get_profile; then, the lock released, the two fields
\* are set in the copy
UpdateGetProfile(t) ==
    /\ calls[t] # None /\ calls[t].pc = "get_profile"
    /\ LET got_profile == get_profile(store.some, db)
           args == calls[t].args
           profile == IF got_profile.val = None
                      THEN AnonymousProfile
                      ELSE got_profile.val.some
           named == IF args.display_name # None
                    THEN [profile EXCEPT !.display_name = args.display_name.some]
                    ELSE profile
           changed == IF args.status_message # None
                      THEN [named EXCEPT !.status_message = args.status_message]
                      ELSE named
       IN  IF ~got_profile.ok
           THEN /\ calls' = [calls EXCEPT ![t] = None]
                /\ returned' = [returned EXCEPT ![t] =
                                  Append(@, [args |-> args, res |-> got_profile])]
           ELSE /\ calls' = [calls EXCEPT ![t] =
                               [pc |-> "store_profile", args |-> args,
                                profile |-> changed]]
                /\ UNCHANGED returned
    /\ UNCHANGED <<rng, appVars, storeVars>>
    /\ UNCHANGED <<msgVars, ids, sealVars, signVars, ratchetVars, sessVars, netVars, app, startVars, runVars>>

\* under the lock again: store_profile
UpdateStoreProfile(t, io_ok) ==
    /\ calls[t] # None /\ calls[t].pc = "store_profile"
    /\ rng + 2 <= MaxConvDraws
    /\ LET stored == store_profile(store.some, db, calls[t].profile,
                                   Rand(rng), Rand(rng + 1), io_ok)
       IN  /\ db' = stored.db
           /\ IF stored.res.ok
              THEN /\ calls' = [calls EXCEPT ![t].pc = "write_profile"]
                   /\ UNCHANGED returned
              ELSE /\ calls' = [calls EXCEPT ![t] = None]
                   /\ returned' = [returned EXCEPT ![t] =
                                     Append(@, [args |-> calls[t].args,
                                                res |-> stored.res])]
    /\ rng' = rng + 2
    /\ UNCHANGED <<chat, last, account, createdKeys, closed, storeVars>>
    /\ UNCHANGED <<msgVars, ids, sealVars, signVars, ratchetVars, sessVars, netVars, app, startVars, runVars>>

\* under the write lock of the profile field: the copy is assigned
UpdateWriteProfile(t) ==
    /\ calls[t] # None /\ calls[t].pc = "write_profile"
    /\ chat' = [chat EXCEPT ![1].profile = Some(calls[t].profile)]
    /\ calls' = [calls EXCEPT ![t] = None]
    /\ returned' = [returned EXCEPT ![t] =
                      Append(@, [args |-> calls[t].args, res |-> Ok(Unit)])]
    /\ UNCHANGED <<rng, db, last, account, createdKeys, closed, storeVars>>
    /\ UNCHANGED <<msgVars, ids, sealVars, signVars, ratchetVars, sessVars, netVars, app, startVars, runVars>>

NextProfile ==
    \/ \E password \in Passwords : CreateStore(password)
    \/ \E t \in Tasks, args \in ProfileArgs : UpdateBegin(t, args)
    \/ \E t \in Tasks : UpdateGetProfile(t)
    \/ \E t \in Tasks, io_ok \in BOOLEAN : UpdateStoreProfile(t, io_ok)
    \/ \E t \in Tasks : UpdateWriteProfile(t)

SpecProfile == Init /\ [][NextProfile]_vars

(***************************************************************************)
(* The start specification: start_network is called on one SecureChat, by  *)
(* a caller of the library or by the desktop, whose start_event_listener   *)
(* and start_network command hold the AppState chat mutex for the whole    *)
(* call.  The call stores its NetworkManager in self.network and its       *)
(* command sender in self.network_cmd_tx, each under its own lock, spawns  *)
(* the network task and returns.  The network task locks self.network in   *)
(* the scrutinee of an if let, so it holds the mutex until the body, which *)
(* awaits manager.run(), is over.                                          *)
(***************************************************************************)
\* who calls start_network
Callers == {"library", "start_event_listener", "start_network command"}

\* the desktop's callers lock state.chat first
Desktop(via) == via # "library"

\* the c-th call is made.  The desktop keeps its SecureChat to itself: its
\* first call is the one start_event_listener makes when the account is
\* created or unlocked, and the commands of the window come after it.
StartBegin(c, via) ==
    /\ starts[c].pc = "idle"
    /\ \A b \in Starts : b < c => /\ starts[b].pc # "idle"
                                  /\ Desktop(starts[b].via) = Desktop(via)
    /\ via = "start_event_listener" => c = 1
    /\ via = "start_network command" =>
           /\ starts[1].pc = "returned"
           /\ starts[1].via = "start_event_listener"
    /\ starts' = [starts EXCEPT ![c] =
                     [pc |-> IF Desktop(via) THEN "state.chat.lock" ELSE "network.lock",
                      via |-> via]]
    /\ UNCHANGED <<network, network_cmd_tx, appLock, netTasks>>
    /\ UNCHANGED <<rng, msgVars, ids, sealVars, signVars, ratchetVars, appVars, sessVars, netVars, storeVars, app, convVars, runVars>>

\* state.chat.lock().await, then NetworkManager::new, which cannot fail
StateLock(c) ==
    /\ starts[c].pc = "state.chat.lock"
    /\ appLock = None
    /\ appLock' = Some(c)
    /\ starts' = [starts EXCEPT ![c].pc = "network.lock"]
    /\ UNCHANGED <<network, network_cmd_tx, netTasks>>
    /\ UNCHANGED <<rng, msgVars, ids, sealVars, signVars, ratchetVars, appVars, sessVars, netVars, storeVars, app, convVars, runVars>>

\* *self.network.lock().await = Some(manager)
SetNetwork(c) ==
    /\ starts[c].pc = "network.lock"
    /\ network.holder = None
    /\ network' = [network EXCEPT !.value = Some(c)]
    /\ starts' = [starts EXCEPT ![c].pc = "network_cmd_tx.lock"]
    /\ UNCHANGED <<network_cmd_tx, appLock, netTasks>>
    /\ UNCHANGED <<rng, msgVars, ids, sealVars, signVars, ratchetVars, appVars, sessVars, netVars, storeVars, app, convVars, runVars>>

\* *self.network_cmd_tx.lock().await = Some(cmd_tx); the two tasks are
\* spawned and the call returns, the desktop's caller dropping chat_guard
SetCmdTxAndSpawn(c) ==
    /\ starts[c].pc = "network_cmd_tx.lock"
    /\ network_cmd_tx' = Some(c)
    /\ netTasks' = [netTasks EXCEPT ![c] = [pc |-> "network.lock"]]
    /\ starts' = [starts EXCEPT ![c].pc = "returned"]
    /\ appLock' = IF appLock = Some(c) THEN None ELSE appLock
    /\ UNCHANGED network
    /\ UNCHANGED <<rng, msgVars, ids, sealVars, signVars, ratchetVars, appVars, sessVars, netVars, storeVars, app, convVars, runVars>>

\* the network task: network.lock().await.take(); with a manager it goes
\* on to run() holding the guard, without one it ends
TaskLock(m) ==
    /\ netTasks[m].pc = "network.lock"
    /\ network.holder = None
    /\ IF network.value = None
       THEN /\ netTasks' = [netTasks EXCEPT ![m] = [pc |-> "done"]]
            /\ UNCHANGED network
       ELSE /\ netTasks' = [netTasks EXCEPT ![m] =
                              [pc |-> "run", manager |-> network.value.some]]
            /\ network' = [holder |-> Some(m), value |-> None]
    /\ UNCHANGED <<network_cmd_tx, appLock, starts>>
    /\ UNCHANGED <<rng, msgVars, ids, sealVars, signVars, ratchetVars, appVars, sessVars, netVars, storeVars, app, convVars, runVars>>

\* run() returns an error before its event loop; the guard is dropped
RunFails(m) ==
    /\ netTasks[m].pc = "run"
    /\ netTasks' = [netTasks EXCEPT ![m] = [pc |-> "done"]]
    /\ network' = [network EXCEPT !.holder = None]
    /\ UNCHANGED <<network_cmd_tx, appLock, starts>>
    /\ UNCHANGED <<rng, msgVars, ids, sealVars, signVars, ratchetVars, appVars, sessVars, netVars, storeVars, app, convVars, runVars>>

\* a caller of the library calls stop_network: Shutdown goes to the manager
\* whose sender network_cmd_tx holds, and the task running it leaves run()
StopNetwork(m) ==
    /\ netTasks[m].pc = "run"
    /\ network_cmd_tx = Some(netTasks[m].manager)
    /\ ~Desktop(starts[1].via)
    /\ netTasks' = [netTasks EXCEPT ![m] = [pc |-> "done"]]
    /\ network' = [network EXCEPT !.holder = None]
    /\ UNCHANGED <<network_cmd_tx, appLock, starts>>
    /\ UNCHANGED <<rng, msgVars, ids, sealVars, signVars, ratchetVars, appVars, sessVars, netVars, storeVars, app, convVars, runVars>>

NextStart ==
    \/ \E c \in Starts, via \in Callers : StartBegin(c, via)
    \/ \E c \in Starts : StateLock(c)
    \/ \E c \in Starts : SetNetwork(c)
    \/ \E c \in Starts : SetCmdTxAndSpawn(c)
    \/ \E m \in Starts : TaskLock(m)
    \/ \E m \in Starts : RunFails(m)
    \/ \E m \in Starts : StopNetwork(m)

\* every step of a call or of a task that can be taken is taken, and the
\* mutexes, which queue their waiters, are granted to each waiter while
\* they keep coming free; nothing makes run() fail or a caller stop the
\* network
StartFairness ==
    \A c \in Starts :
        /\ SF_vars(StateLock(c))
        /\ SF_vars(SetNetwork(c))
        /\ WF_vars(SetCmdTxAndSpawn(c))
        /\ SF_vars(TaskLock(c))

SpecStart == Init /\ [][NextStart]_vars /\ StartFairness

(***************************************************************************)
(* The run specification: NetworkManager::run is in its event loop and     *)
(* network_event_loop reads what it sends.  run takes a swarm event or a   *)
(* command, whichever select! finds ready, and handles it to the end       *)
(* before it selects again; handle_swarm_event awaits event_sender.send,   *)
(* and network_event_loop awaits chat_tx.send, each of which completes     *)
(* when the channel has room.  Both channels are made with capacity 100;   *)
(* the model gives them ChannelSlots.  The reader of chat_rx reads when it *)
(* pleases.                                                                *)
(***************************************************************************)
\* what the swarm hands to handle_swarm_event
GossipData ==
    {bincode_serialize([type |-> "ContactRequest", display_name |-> "Test User",
                        message |-> "hello", key_bundle |-> KeyBundle]),
     bincode_serialize([type |-> "DeliveryReceipt",
                        message_id |-> <<"id", <<"envelope", 1>>>>]),
     <<"bytes", 0>>}

SwarmEvents ==
    {[type |-> "NewListenAddr"]}
        \cup {[type |-> t, peer_id |-> p] :
                t \in {"ConnectionEstablished", "ConnectionClosed"}, p \in PeerIds}
        \cup {[type |-> "Message", propagation_source |-> p, data |-> d] :
                p \in PeerIds, d \in GossipData}

\* select! takes a swarm event: handle_swarm_event, up to its send
SwarmDelivers(e) ==
    /\ run.pc = "select"
    /\ swarm < MaxSwarmEvents
    /\ swarm' = swarm + 1
    /\ LET sending == handle_swarm_event(e)
       IN  /\ run' = IF sending = None
                     THEN run
                     ELSE [pc |-> "send", event |-> sending.some]
           /\ hist' = [hist EXCEPT !.handled =
                           Append(@, [event |-> e, sending |-> sending])]
    /\ UNCHANGED <<cmdq, evq, chatq, evloop>>
    /\ UNCHANGED <<rng, msgVars, ids, sealVars, signVars, ratchetVars, appVars, sessVars, netVars, storeVars, app, convVars, startVars>>

\* event_sender.send(..).await completes: the channel has room
EventSend ==
    /\ run.pc = "send"
    /\ Len(evq) < ChannelSlots
    /\ evq' = Append(evq, run.event)
    /\ run' = [pc |-> "select"]
    /\ UNCHANGED <<swarm, cmdq, chatq, evloop, hist>>
    /\ UNCHANGED <<rng, msgVars, ids, sealVars, signVars, ratchetVars, appVars, sessVars, netVars, storeVars, app, convVars, startVars>>

\* select! takes command_receiver.next(): Shutdown makes handle_command
\* return Ok(true), and None, the channel closed and empty, breaks as well
HandleCommand ==
    /\ run.pc = "select"
    /\ cmdq.items # <<>> \/ ~cmdq.open
    /\ run' = [pc |-> "done", res |-> Ok(Unit)]
    /\ cmdq' = [cmdq EXCEPT !.items = IF @ = <<>> THEN @ ELSE Tail(@)]
    /\ UNCHANGED <<swarm, evq, chatq, evloop, hist>>
    /\ UNCHANGED <<rng, msgVars, ids, sealVars, signVars, ratchetVars, appVars, sessVars, netVars, storeVars, app, convVars, startVars>>

\* stop_network: tx.send(NetworkCommand::Shutdown)
StopNetworkSends ==
    /\ cmdq.open
    /\ run.pc # "done"
    /\ Len(cmdq.items) < ChannelSlots
    /\ cmdq' = [cmdq EXCEPT !.items = Append(@, [type |-> "Shutdown"])]
    /\ UNCHANGED <<swarm, evq, chatq, run, evloop, hist>>
    /\ UNCHANGED <<rng, msgVars, ids, sealVars, signVars, ratchetVars, appVars, sessVars, netVars, storeVars, app, convVars, startVars>>

\* the SecureChat is dropped, and with it the only command sender
CommandSenderDropped ==
    /\ cmdq.open
    /\ cmdq' = [cmdq EXCEPT !.open = FALSE]
    /\ UNCHANGED <<swarm, evq, chatq, run, evloop, hist>>
    /\ UNCHANGED <<rng, msgVars, ids, sealVars, signVars, ratchetVars, appVars, sessVars, netVars, storeVars, app, convVars, startVars>>

\* network_event_loop: event_rx.recv() returns an event and the match
\* makes of it the ChatEvent to send, or none
LoopRecv ==
    /\ evloop.pc = "recv"
    /\ evq # <<>>
    /\ evq' = Tail(evq)
    /\ hist' = [hist EXCEPT !.received = Append(@, Head(evq))]
    /\ LET evt == chat_event(Head(evq))
       IN  evloop' = IF evt = None
                     THEN evloop
                     ELSE [pc |-> "send", event |-> evt.some]
    /\ UNCHANGED <<swarm, cmdq, chatq, run>>
    /\ UNCHANGED <<rng, msgVars, ids, sealVars, signVars, ratchetVars, appVars, sessVars, netVars, storeVars, app, convVars, startVars>>

\* chat_tx.send(evt).await completes: the channel has room
LoopSend ==
    /\ evloop.pc = "send"
    /\ Len(chatq) < ChannelSlots
    /\ chatq' = Append(chatq, evloop.event)
    /\ hist' = [hist EXCEPT !.sent = Append(@, evloop.event)]
    /\ evloop' = [pc |-> "recv"]
    /\ UNCHANGED <<swarm, cmdq, evq, run>>
    /\ UNCHANGED <<rng, msgVars, ids, sealVars, signVars, ratchetVars, appVars, sessVars, netVars, storeVars, app, convVars, startVars>>

\* the holder of chat_rx reads one ChatEvent
ChatRead ==
    /\ chatq # <<>>
    /\ chatq' = Tail(chatq)
    /\ UNCHANGED <<swarm, cmdq, evq, run, evloop, hist>>
    /\ UNCHANGED <<rng, msgVars, ids, sealVars, signVars, ratchetVars, appVars, sessVars, netVars, storeVars, app, convVars, startVars>>

NextRun ==
    \/ \E e \in SwarmEvents : SwarmDelivers(e)
    \/ EventSend
    \/ HandleCommand
    \/ StopNetworkSends
    \/ CommandSenderDropped
    \/ LoopRecv
    \/ LoopSend
    \/ ChatRead

\* the two tasks take every step they can take; the swarm, the caller of
\* stop_network and the reader of chat_rx owe nothing
RunFairness ==
    /\ WF_vars(EventSend)
    /\ WF_vars(HandleCommand)
    /\ WF_vars(LoopRecv)
    /\ WF_vars(LoopSend)

SpecRun == Init /\ [][NextRun]_vars /\ RunFairness

(***************************************************************************)
(* The event-loop specification: network_event_loop reads NetworkEvents of *)
(* every kind from event_rx, whoever sent them, and sends ChatEvents to    *)
(* chat_tx, which the holder of chat_rx reads when it pleases.             *)
(***************************************************************************)
\* a ProtocolMessage of each variant
LoopMessages ==
    {m \in ProtocolMessages : m.type # "Encrypted"}
        \cup {[type |-> "Encrypted",
                envelope |-> CHOOSE e \in Envelopes : e.reply_to = None /\ e.signature # <<>>]}

\* a NetworkEvent of each variant
NetworkEvents ==
    {[type |-> "MessageReceived", peer_id |-> p, message |-> m] :
        p \in PeerIds, m \in LoopMessages}
        \cup {[type |-> "PeerDiscovered", peer_id |-> p, addrs |-> <<>>] : p \in PeerIds}
        \cup {[type |-> t, peer_id |-> p] :
                t \in {"PeerConnected", "PeerDisconnected"}, p \in PeerIds}
        \cup {[type |-> "Connected"], [type |-> "Disconnected"]}

\* a NetworkEvent is sent on the channel network_event_loop reads
NetworkEventArrives(e) ==
    /\ swarm < MaxNetEvents
    /\ Len(evq) < ChannelSlots
    /\ swarm' = swarm + 1
    /\ evq' = Append(evq, e)
    /\ UNCHANGED <<cmdq, chatq, run, evloop, hist>>
    /\ UNCHANGED <<rng, msgVars, ids, sealVars, signVars, ratchetVars, appVars, sessVars, netVars, storeVars, app, convVars, startVars>>

NextLoop ==
    \/ \E e \in NetworkEvents : NetworkEventArrives(e)
    \/ LoopRecv
    \/ LoopSend
    \/ ChatRead

SpecLoop == Init /\ [][NextLoop]_vars

(***************************************************************************)
(* Claims about the message envelope, checked under SpecMsg.               *)
(***************************************************************************)
\* the party that decrypted last holds the key pair the envelope was
\* encrypted for
DecryptedByRecipient ==
    /\ rcv # None
    /\ kp[rcv.by].public_key = wire.to

\* C3: an unchanged envelope that A encrypted for B's public key is
\* decrypted by B to exactly the plaintext A encrypted.
C3_EnvelopeRoundTrip ==
    (DecryptedByRecipient /\ wire.changed = "none")
        => (rcv.res.ok /\ rcv.res.val = wire.msg)

C3_Witness ==
    /\ DecryptedByRecipient
    /\ wire.changed = "none"
    /\ wire.from # rcv.by
    /\ rcv.res.ok
    /\ rcv.res.val = wire.msg

\* C4: an envelope changed in any one of its four fields is rejected by
\* decrypt_message, whoever decrypts it.
C4_ChangedEnvelopeRejected ==
    (rcv # None /\ wire.changed # "none") => ~rcv.res.ok

\* C5: an unchanged envelope encrypted for one public key is rejected by
\* every key pair other than the one that public key belongs to.
C5_OtherKeyPairRejects ==
    (rcv # None /\ wire.changed = "none" /\ ~DecryptedByRecipient)
        => ~rcv.res.ok

C5_Witness ==
    /\ rcv # None
    /\ wire.changed = "none"
    /\ \E b \in Parties : kp[b] # None /\ kp[b].public_key = wire.to /\ b # rcv.by
    /\ wire.from # rcv.by
    /\ ~rcv.res.ok

(***************************************************************************)
(* Claims about the identity key pair, checked under SpecSeal and SpecSign.*)
(***************************************************************************)
\* C6: opening a sealed identity under the master key it was sealed with
\* yields the sealed key pair's secret, and a public key derived from it that
\* equals the public key stored in the sealed form; opening it under any
\* other master key fails.
C6_IdentitySealRoundTrip ==
    opened # None =>
        IF opened.master_key = sealed.master_key
        THEN /\ opened.res.ok
             /\ opened.res.val.secret_key = ids[sealed.by].secret_key
             /\ opened.res.val.public_key = verifying_key(opened.res.val.secret_key)
             /\ opened.res.val.public_key = sealed.enc.public_key
        ELSE ~opened.res.ok

\* a sealed identity has been opened under the master key that sealed it
C6_Witness ==
    /\ opened # None
    /\ opened.master_key = sealed.master_key
    /\ opened.res.ok
    /\ opened.res.val.secret_key = ids[sealed.by].secret_key
    /\ opened.res.val.public_key = sealed.enc.public_key

\* a sealed identity has been refused under another master key
C6_WitnessOtherKey ==
    /\ opened # None
    /\ opened.master_key # sealed.master_key
    /\ ~opened.res.ok

\* one bit apart
OneBitApart(m1, m2) == Cardinality({j \in 1..MsgBits : m1[j] # m2[j]}) = 1

\* C8: the signature an identity made over a message verifies under that
\* identity's public key; verification fails for a message one bit apart,
\* for the signature with one bit flipped, and for every other public key.
C8_SignatureStrict ==
    verified # None =>
        /\ (/\ verified.pk = ids[signed.by].public_key
            /\ verified.msg = signed.msg
            /\ verified.sig = signed.sig) => verified.res.ok
        /\ OneBitApart(verified.msg, signed.msg) => ~verified.res.ok
        /\ verified.sig # signed.sig => ~verified.res.ok
        /\ verified.pk # ids[signed.by].public_key => ~verified.res.ok

C8_Witness ==
    /\ verified # None
    /\ verified.pk = ids[signed.by].public_key
    /\ OneBitApart(verified.msg, signed.msg)
    /\ verified.sig = signed.sig
    /\ ~verified.res.ok

(***************************************************************************)
(* Claims about the DoubleRatchet, checked under SpecRatchet.              *)
(***************************************************************************)
\* two peers initialized from the same shared secret that have performed
\* the same number of ratchet steps, at least one
InSync(p, q) ==
    /\ p # q
    /\ ratchet[p] # None /\ ratchet[q] # None
    /\ Len(fed[p]) = Len(fed[q]) /\ Len(fed[p]) > 0
    /\ pre[p].root_key = pre[q].root_key

\* C9: for two peers kept in sync, the sending chain key of each equals the
\* receiving chain key of the other, so that the message keys of the sender
\* are those of the receiver.
C9_ChainKeysAgree ==
    \A p, q \in Peers :
        InSync(p, q) => ratchet[p].sending_chain_key = ratchet[q].receiving_chain_key

\* C10: two ratchet steps from the same state with different remote public
\* keys end with different root keys and different chain keys.
C10_StepDependsOnRemoteKey ==
    \A p, q \in Peers :
        (/\ p # q
         /\ fed[p] # <<>> /\ fed[q] # <<>>
         /\ pre[p] = pre[q]
         /\ fed[p][Len(fed[p])] # fed[q][Len(fed[q])])
        => /\ ratchet[p].root_key # ratchet[q].root_key
           /\ ratchet[p].sending_chain_key # ratchet[q].sending_chain_key
           /\ ratchet[p].receiving_chain_key # ratchet[q].receiving_chain_key

Delivered == {got[k].idx : k \in 1..Len(got)}

\* no message was delivered twice
NoRedelivery ==
    \A j, k \in 1..Len(got) : j # k => got[j].idx # got[k].idx

\* the messages still outstanding that a later message has overtaken
Overtaken ==
    {i \in 1..Len(sent) : i \notin Delivered /\ \E j \in Delivered : j > i}

\* C12: when the messages sent in order are delivered in any order, each
\* once, every delivery yields the plaintext that was sent, the receiver's
\* ratchet holds one buffered message key per overtaken message, and the
\* buffer is empty once every message is delivered.
C12_OutOfOrderDelivery ==
    (got # <<>> /\ NoRedelivery) =>
        /\ \A k \in 1..Len(got) : got[k].res = Ok(sent[got[k].idx].msg)
        /\ Len(ratchet[Receiver].skipped_message_keys) = Cardinality(Overtaken)
        /\ Delivered = 1..Len(sent) =>
               ratchet[Receiver].skipped_message_keys = <<>>

\* C13: a delivery of a message that an earlier delivery already accepted
\* is rejected and leaves the receiver's ratchet as it was.
C13_ReplayRejected ==
    \A k \in 1..Len(got) :
        (\E j \in 1..(k - 1) : got[j].idx = got[k].idx /\ got[j].res.ok) =>
            /\ ~got[k].res.ok
            /\ got[k].after = got[k].before

(***************************************************************************)
(* Claims about the account, checked under Spec.                           *)
(***************************************************************************)
\* the master-key envelope stored under "mk:"
StoredEnvelope == bincode_deserialize(db[PREFIX_MASTER_KEY], "").val

\* the last operation was unlock_account
Unlocked == last # None /\ last.op = "unlock_account"

\* C1: for the envelope from_password made from the account's password,
\* MasterKey::unlock and SecureStorage::unlock succeed for a password if and
\* only if it is that password, and unlock_account with another password
\* returns an error.
C1_UnlockIffPassword ==
    account # None =>
        /\ \A p \in Passwords :
               /\ MasterKey_unlock(StoredEnvelope, p).ok <=> p = account.password
               /\ SecureStorage_unlock(db, p).ok <=> p = account.password
        /\ (Unlocked /\ last.password # account.password) => ~last.res.ok

C1_Witness ==
    /\ account # None
    /\ Unlocked
    /\ last.password # account.password
    /\ last.res = Err(<<"Failed to unlock database",
                        "Failed to unlock database - wrong password?",
                        "Failed to decrypt master key - wrong password?: Error">>)

\* C2: the master key from_password returned is the key unlock returns, under
\* the same password, from the envelope of the same call; unlock_account
\* with that password leaves the instance holding that key.
C2_MasterKeyRoundTrip ==
    account # None =>
        /\ MasterKey_unlock(StoredEnvelope, account.password) = Ok(account.master_key)
        /\ (Unlocked /\ last.password = account.password) =>
               chat[last.chat].storage = Some([master_key |-> account.master_key])

C2_Witness ==
    /\ account # None
    /\ Unlocked
    /\ last.password = account.password
    /\ last.res.ok

\* C7: after a successful unlock_account, get_public_key returns the public
\* key it returned right after every create_account that succeeded on the
\* store.
C7_PublicKeyStable ==
    (Unlocked /\ last.res.ok) =>
        \A pk \in createdKeys : get_public_key(chat[last.chat]) = Ok(pk)

\* C20: once create_account has succeeded on the store, no later operation
\* replaces the master-key envelope stored under "mk:", and every password
\* that unlocks the store keeps unlocking it.
C20_EnvelopeNeverReplaced ==
    [][createdKeys # {} =>
          /\ db'[PREFIX_MASTER_KEY] = db[PREFIX_MASTER_KEY]
          /\ \A p \in Passwords :
                 SecureStorage_unlock(db, p).ok => SecureStorage_unlock(db', p).ok]_vars

(***************************************************************************)
(* Claims about the store and the calls on it, checked under SpecChat.     *)
(***************************************************************************)
\* the master-key envelope as SecureStorage::create serializes it
SealedEnvelope(v) ==
    /\ v[1] = "bincode"
    /\ v[2].encrypted_key[1] = "gcm"
    /\ v[2].encrypted_key[2][1] = "argon2id"

\* salt, nonce and an AES-GCM ciphertext, as SecureStorage::encrypt makes it
SealedBlob(v) ==
    /\ v[1] = "blob"
    /\ v[4][1] = "gcm"

\* C15: every value in the record store is the sealed master-key envelope
\* or an AEAD ciphertext; no call, set_setting included, writes cleartext.
C15_StoreHoldsSealedBlobsOnly ==
    \A k \in DOMAIN db : SealedEnvelope(db[k]) \/ SealedBlob(db[k])

\* the byte strings that can be read off stored or exported bytes without a
\* key: the bytes themselves and the fields they are made of
Readable(b) ==
    {b} \cup
    CASE b[1] = "blob" -> {b[2], b[3], b[4]}
      [] b[1] = "bincode" -> {b[2].encrypted_key, b[2].salt, b[2].nonce}
      [] b[1] = "backup" ->
           {b[2], b[2][2].encrypted_key, b[2][2].salt, b[2][2].nonce, b[3], b[4]}
      [] OTHER -> {}

\* the master keys the program holds or has held
MasterKeysHeld ==
    {chat[c].storage.some.master_key : c \in {x \in Chats : chat[x].storage # None}}
        \cup (IF account # None THEN {account.master_key} ELSE {})
        \cup (IF last # None /\ last.op = "export_backup" /\ last.res.ok
              THEN {last.backup_key.some}
              ELSE {})

Exported == last # None /\ last.op = "export_backup" /\ last.res.ok

\* C16: no master key can be read off a value in the record store or off
\* the bytes export_backup returns; the store holds the master key only
\* sealed under the key derived from the password.
C16_MasterKeyNeverInClear ==
    /\ \A k \in DOMAIN db : MasterKeysHeld \cap Readable(db[k]) = {}
    /\ Exported => MasterKeysHeld \cap Readable(last.res.val) = {}
    /\ account # None =>
           StoredEnvelope.encrypted_key =
               AeadEncrypt(Argon2id(account.password, StoredEnvelope.salt),
                           StoredEnvelope.nonce, account.master_key)

C16_Witness ==
    /\ Exported
    /\ \E k \in DOMAIN db : k[1] = "ct:"
    /\ SettingKey("theme") \in DOMAIN db

\* C17: once close has completed on an instance, the master key and the
\* identity secret it held in memory are all zeros.
C17_KeysZeroedOnClose ==
    \A c \in closed :
        /\ chat[c].storage # None =>
               chat[c].storage.some.master_key = ZeroBytes
        /\ chat[c].identity # None =>
               chat[c].identity.some.secret_key = ZeroBytes

\* the last call was send_text_message
Sending == last # None /\ last.op = "send_text_message"

\* the conversation, and the contact, that the last send was to look up
SendConversation ==
    get_conversation(chat[last.chat].storage.some, last.before, last.conversation_id)

SendContact ==
    get_contact(chat[last.chat].storage.some, last.before,
                SendConversation.val.some.contact_id)

\* C19: send_text_message for a conversation that is not stored, or whose
\* contact is not stored, returns an error and leaves the store as it was.
C19_SendToMissingAborts ==
    (/\ Sending
     /\ SendConversation.ok
     /\ \/ SendConversation.val = None
        \/ SendContact.ok /\ SendContact.val = None)
    => /\ ~last.res.ok
       /\ db = last.before

C19_Witness ==
    /\ Sending
    /\ SendConversation.ok /\ SendConversation.val # None
    /\ SendContact.ok /\ SendContact.val = None
    /\ last.res = Anyhow("Contact not found")
    /\ db = last.before

(***************************************************************************)
(* Claims about the AEAD seals, checked under SpecChat.                    *)
(***************************************************************************)
\* the AES-GCM ciphertexts held in the state: the per-entry blobs and the
\* master-key envelope of the store, the sealed identity secret inside the
\* identity record, the envelope and the document of the last backup, and
\* the message ciphertexts one peer made for the other
Seals ==
    {db[k][4] : k \in {x \in DOMAIN db : db[x][1] = "blob"}}
        \cup {db[k][2].encrypted_key : k \in {x \in DOMAIN db : db[x][1] = "bincode"}}
        \cup {db[k][4][4][2].encrypted_secret :
                k \in {x \in DOMAIN db : x = IdentityKey /\ db[x][1] = "blob"}}
        \cup (IF Exported
              THEN {last.res.val[2][2].encrypted_key, last.res.val[4]}
              ELSE {})
        \cup {sent[i].env.ciphertext : i \in 1..Len(sent)}

\* C21: every seal is made under a nonce drawn for it from the CSPRNG, and
\* no two seals under the same key carry the same nonce.
C21_NoncesNeverReused ==
    /\ \A s \in Seals : \E i \in 0..(rng - 1) : s[3] = Rand(i)
    /\ \A s1, s2 \in Seals : (s1[2] = s2[2] /\ s1[3] = s2[3]) => s1 = s2

C21_Witness ==
    /\ Exported
    /\ IdentityKey \in DOMAIN db /\ ProfileKey \in DOMAIN db
    /\ db[IdentityKey][4][2] = db[ProfileKey][4][2]
    /\ db[IdentityKey][4][3] # db[ProfileKey][4][3]
    /\ db[IdentityKey][4][4][2].encrypted_secret[2] = db[IdentityKey][4][2]

(***************************************************************************)
(* Claims about serialization, checked under SpecNet.                      *)
(***************************************************************************)
\* C22: the bytes of a serialized MessageEnvelope deserialize to the
\* envelope, and the bytes the network layer publishes for a ProtocolMessage
\* of any variant are received as that message.
C22_SerializationRoundTrip ==
    /\ (coded # None /\ coded.back # None) => coded.back.some = Ok(coded.value)
    /\ \A j \in 1..Len(received) :
          received[j].event =
              Some([type |-> "MessageReceived",
                    peer_id |-> received[j].peer_id,
                    message |-> published[received[j].of].message])

(***************************************************************************)
(* Claims about inputs cut short, checked under SpecShort.                 *)
(***************************************************************************)
\* the result is an error that the AEAD did not make: the input was turned
\* down before cipher.decrypt was called on it
RejectedBeforeDecryption(res) ==
    /\ ~res.ok
    /\ res # Anyhow(DecryptionFailed)
    /\ \A i \in DOMAIN res.val : res.val[i] # "aead::Error"

\* C23: a sealed blob or an envelope whose ciphertext part has fewer than
\* the 16 bytes of the AEAD tag is rejected with an error before any
\* decryption is attempted, by SecureStorage::decrypt and by decrypt_message.
C23_ShortCiphertextRejectedEarly ==
    /\ (read # None /\ read.data # None
           /\ ByteLen(read.data.some) < 28 + TagSize)
       => RejectedBeforeDecryption(read.res)
    /\ (rcv # None /\ ByteLen(wire.env.ciphertext) < TagSize)
       => RejectedBeforeDecryption(rcv.res)

(***************************************************************************)
(* Claims about the desktop commands, checked under SpecDesktop.           *)
(***************************************************************************)
\* the last command was unlock_account and the core's unlock_account failed
UnlockFailed ==
    /\ last # None
    /\ last.op = "desktop.unlock_account"
    /\ last.core # None
    /\ ~last.core.some.ok

\* C24: whatever made the core's unlock_account fail, a wrong password, a
\* master-key envelope that does not deserialize or open, an identity that
\* is missing or does not open, the unlock_account command returns the same
\* error string.
C24_UnlockFailuresLookAlike ==
    UnlockFailed => last.ret = Err("Invalid password")

C24_Witness ==
    /\ UnlockFailed
    /\ last.ret = Err("Invalid password")
    /\ to_string(last.core.some.val) = "Failed to get identity"

(***************************************************************************)
(* Claims about concurrent calls, checked under SpecConv.                  *)
(***************************************************************************)
\* the conversations the store holds for a contact
ConversationsOf(contact_id) ==
    {conv \in get_all_conversations(store.some, db).val : conv.contact_id = contact_id}

\* C26: however get_or_create_conversation calls for one contact id are
\* interleaved, the store holds exactly one conversation for that contact
\* and every call that returned, returned that conversation.
C26_OneConversationPerContact ==
    \A t \in Tasks : \A i \in 1..Len(returned[t]) :
        returned[t][i].res.ok =>
            ConversationsOf(returned[t][i].contact_id) = {returned[t][i].res.val}

(***************************************************************************)
(* Claims about the values of the ratchet state, checked under             *)
(* SpecRatchet.                                                            *)
(***************************************************************************)
\* C27: DoubleRatchet::initialize(SS) returns the state whose root key is
\* SS, with no chain key, both message numbers 0 and no skipped key.
C27_InitialState ==
    [][\A p \in Peers : \A ss \in SharedSecrets :
          Initialize(p, ss) =>
              ratchet'[p] = [root_key |-> ss,
                             sending_chain_key |-> None,
                             receiving_chain_key |-> None,
                             sending_message_number |-> 0,
                             receiving_message_number |-> 0,
                             skipped_message_keys |-> <<>>]]_vars

C27_Witness ==
    \E p \in Peers :
        /\ ratchet[p] # None
        /\ fed[p] = <<>>
        /\ ratchet[p].root_key \in SharedSecrets
        /\ ratchet[p].skipped_message_keys = <<>>

\* C28: after a ratchet step on a state with root key RK the root key is
\* HKDF(RK, "ratchet-root"), the sending chain key HKDF(RK, "ratchet-send")
\* and the receiving chain key HKDF(RK, "ratchet-recv"); the three differ
\* from each other, and both message numbers are 0.
C28_RatchetStepDerivation ==
    \A p \in Peers :
        Len(fed[p]) > 0 =>
            /\ ratchet[p].root_key = HkdfExpand(pre[p].root_key, "ratchet-root")
            /\ ratchet[p].sending_chain_key =
                   Some(HkdfExpand(pre[p].root_key, "ratchet-send"))
            /\ ratchet[p].receiving_chain_key =
                   Some(HkdfExpand(pre[p].root_key, "ratchet-recv"))
            /\ ratchet[p].root_key # ratchet[p].sending_chain_key.some
            /\ ratchet[p].root_key # ratchet[p].receiving_chain_key.some
            /\ ratchet[p].sending_chain_key # ratchet[p].receiving_chain_key
            /\ ratchet[p].sending_message_number = 0
            /\ ratchet[p].receiving_message_number = 0

C28_Witness ==
    \E p \in Peers :
        /\ Len(fed[p]) = MaxSteps
        /\ pre[p].sending_chain_key # None
        /\ ratchet[p].root_key =
               HkdfExpand(HkdfExpand(pre[p].root_key[2], "ratchet-root"), "ratchet-root")

(***************************************************************************)
(* The session key pair, checked under Spec.                               *)
(***************************************************************************)
\* the key bytes the values of a store hold under their seals: the master
\* key of the envelope and the identity keys of the identity and device
\* records
StoredKeyBytes(d) ==
    UNION {CASE k[1] = "mk:" -> {d[k][2].encrypted_key[4]}
             [] k[1] = "id:" ->
                  LET v == d[k][4][4][2]
                  IN  {v.public_key, v.encrypted_secret[4]}
             [] k[1] = "dv:" ->
                  LET v == d[k][4][4][2].identity_key
                  IN  {v.public_key, v.encrypted_secret[4]}
             [] OTHER -> {} : k \in DOMAIN d}

\* C29: every create_account and unlock_account that succeeds leaves the
\* instance a session key pair no instance held before, neither half of
\* which is in the store; after an unlock on an instance that had a session
\* key pair the public key differs from the earlier one, and an envelope a
\* peer encrypted to the earlier public key, which the earlier key pair
\* opens, is rejected by decrypt_message under the new key pair.
C29_SessionKeysAreEphemeral ==
    [][\A c \in Chats :
         (last' # None /\ last'.chat = c /\ last'.res.ok /\ rng' > rng) =>
             LET old == chat[c].message_keys
                 new == chat'[c].message_keys
                 peer == MessageKeyPair_generate(Rand(MaxDraws + 1))
             IN  /\ new # None
                 /\ \A c2 \in Chats : chat[c2].message_keys # new
                 /\ new.some.secret_key \notin StoredKeyBytes(db')
                 /\ new.some.public_key \notin StoredKeyBytes(db')
                 /\ (last'.op = "unlock_account" /\ old # None) =>
                        /\ new.some.public_key # old.some.public_key
                        /\ \A m \in Messages :
                              LET encrypted ==
                                      encrypt_message(peer, old.some.public_key, m,
                                                      Rand(MaxDraws + 2),
                                                      Rand(MaxDraws + 3)).val
                              IN  /\ decrypt_message(old.some, encrypted) = Ok(m)
                                  /\ ~decrypt_message(new.some, encrypted).ok]_vars

\* an unlock has succeeded on the instance that created the account, the
\* only one that holds a session key pair
C29_Witness ==
    /\ Unlocked
    /\ last.res.ok
    /\ createdKeys # {}
    /\ chat[last.chat].message_keys # None
    /\ chat[last.chat].message_keys.some.secret_key = Rand(rng - 1)
    /\ \A c \in Chats \ {last.chat} : chat[c].message_keys = None


(***************************************************************************)
(* Claims about put and get, checked under SpecStore.                      *)
(***************************************************************************)
\* C30: get after put returns the value put, for every key and value the
\* callers store; the blob put has 16 salt bytes, 12 nonce bytes and then
\* the ciphertext; a change to the salt bytes does not change what get
\* returns; and a blob shorter than 28 bytes is rejected as invalid.
C30_GetAfterPutReturnsValue ==
    (read # None /\ read.key \in DOMAIN written
        /\ read.data = db_get(db, read.key)) =>
        LET w == written[read.key]
            data == read.data.some
        IN  /\ w.cut = None =>
                /\ data[1] = "blob"
                /\ data[4] = AeadEncrypt(store.some.master_key, data[3],
                                         bincode_serialize(w.value))
                /\ ByteLen(data) = 16 + 12 + ByteLen(data[4])
                /\ read.res = Ok(Some(w.value))
            /\ (w.cut # None /\ w.cut.some < 28) =>
                read.res = Anyhow("Invalid encrypted data")

(***************************************************************************)
(* Claims about the commands of the network task, checked under SpecNet.   *)
(***************************************************************************)
\* C31: a SendMessage command that names a target peer asks the transport to
\* deliver to that peer only, one without a target asks it to publish on the
\* topic, and so the two forms never ask the same of the transport.
C31_DirectAndBroadcastDiffer ==
    /\ \A i \in 1..Len(published) :
          IF published[i].peer_id # None
          THEN /\ "peer_id" \in DOMAIN published[i].transport
               /\ published[i].transport.peer_id = published[i].peer_id.some
               /\ "topic" \notin DOMAIN published[i].transport
          ELSE published[i].transport =
                   [call |-> "gossipsub.publish", topic |-> DefaultTopic]
    /\ \A i, j \in 1..Len(published) :
          (published[i].peer_id # None /\ published[j].peer_id = None)
              => published[i].transport # published[j].transport

(***************************************************************************)
(* Claims about the buffer of skipped keys, checked under SpecSkipped.     *)
(***************************************************************************)
\* C32: a ratchet step changes no field of the DoubleRatchet other than
\* root_key, the two chain keys and the two message numbers: the entries of
\* skipped_message_keys, buffered under counters of the chain that ends,
\* are all still there, in their order, after both counters are reset to 0.
C32_RatchetKeepsSkippedKeys ==
    [][\A p \in Peers, pk \in RemoteKeys :
         Ratchet(p, pk) =>
             /\ ratchet'[p].skipped_message_keys = ratchet[p].skipped_message_keys
             /\ ratchet'[p] =
                    [ratchet[p] EXCEPT
                        !.root_key = ratchet'[p].root_key,
                        !.sending_chain_key = ratchet'[p].sending_chain_key,
                        !.receiving_chain_key = ratchet'[p].receiving_chain_key,
                        !.sending_message_number = 0,
                        !.receiving_message_number = 0]
             /\ \A q \in Peers \ {p} : ratchet'[q] = ratchet[q]]_vars

\* a ratchet step was made on a state with a full buffer, which is as it was
C32_Witness ==
    \E p \in Peers :
        /\ Len(fed[p]) > 0
        /\ Len(pre[p].skipped_message_keys) = MaxSkipped
        /\ ratchet[p].skipped_message_keys = pre[p].skipped_message_keys
        /\ ratchet[p].receiving_message_number = 0
        /\ \E i \in 1..MaxSkipped : ratchet[p].skipped_message_keys[i][1] > 0

(***************************************************************************)
(* Claims about a failed unlock, checked under Spec.                       *)
(***************************************************************************)
\* C33: an unlock_account that returns an error leaves the instance as it
\* was before the call, storage handle, identity, session keys and profile,
\* and get_public_key goes on failing with "Not authenticated" on an
\* instance where it failed before.
C33_FailedUnlockChangesNothing ==
    [][\A c \in Chats, password \in Passwords :
         (UnlockAccount(c, password) /\ ~last'.res.ok) =>
             /\ chat'[c] = chat[c]
             /\ get_public_key(chat[c]) = Anyhow("Not authenticated")
                    => get_public_key(chat'[c]) = Anyhow("Not authenticated")]_vars

(***************************************************************************)
(* Claims about concurrent profile updates, checked under SpecProfile.     *)
(***************************************************************************)
\* C34: when one task has made one update_profile call that sets only
\* display_name and another one call that sets only status_message, and
\* both have returned Ok, however they were interleaved, the stored profile
\* has both changes and the profile in memory is equal to it.
C34_ConcurrentUpdatesBothKept ==
    \A d \in DisplayNames, m \in StatusMessages :
        (/\ \A t \in Tasks : calls[t] = None
         /\ returned[1] = <<[args |-> [display_name |-> Some(d),
                                       status_message |-> None],
                             res |-> Ok(Unit)]>>
         /\ returned[2] = <<[args |-> [display_name |-> None,
                                       status_message |-> Some(m)],
                             res |-> Ok(Unit)]>>) =>
            LET stored == get_profile(store.some, db)
            IN  /\ stored.ok /\ stored.val # None
                /\ stored.val.some.display_name = d
                /\ stored.val.some.status_message = Some(m)
                /\ chat[1].profile = stored.val

(***************************************************************************)
(* Claims about starting the network, checked under SpecStart.             *)
(***************************************************************************)
\* C35: every start_network call that is made returns in the end, also one
\* made while the network task of an earlier call is in run(); and a
\* desktop caller that took the AppState chat mutex gives it back.
C35_StartNetworkReturns ==
    \A c \in Starts :
        /\ (starts[c].pc # "idle") ~> (starts[c].pc = "returned")
        /\ (appLock = Some(c)) ~> (appLock # Some(c))

(***************************************************************************)
(* Claims about the network task, checked under SpecRun.                   *)
(***************************************************************************)
\* C36: once Shutdown is on the command channel, or the channel is closed,
\* NetworkManager::run leaves its event loop and returns Ok in the end,
\* whatever the readers of the event channels do, also when they have
\* stopped reading and the channels are full.
C36_ShutdownEndsRun ==
    (cmdq.items # <<>> \/ ~cmdq.open) ~> (run.pc = "done" /\ run.res = Ok(Unit))

\* C38: a gossip message whose bytes are not those of a ProtocolMessage
\* makes no NetworkEvent and does not end run, and the messages handled
\* after it whose bytes are those of a ProtocolMessage are each delivered
\* as MessageReceived with the peer they came from.
C38_MalformedMessageIsSkipped ==
    /\ run.pc = "done" => run.res = Ok(Unit)
    /\ \A i \in 1..Len(hist.handled) :
          LET h == hist.handled[i]
          IN  h.event.type = "Message" =>
                  IF h.event.data[1] = "bincode"
                  THEN h.sending = Some([type |-> "MessageReceived",
                                         peer_id |-> h.event.propagation_source,
                                         message |-> h.event.data[2]])
                  ELSE h.sending = None

(***************************************************************************)
(* Claims about network_event_loop, checked under SpecLoop.                *)
(***************************************************************************)
\* the ChatEvents a NetworkEvent is to cause: one for a peer that connects,
\* one for a peer that disconnects, one for a ContactRequest received
CausedBy(e) ==
    CASE e.type = "PeerConnected" ->
           <<[type |-> "ContactOnline", contact_id |-> e.peer_id]>>
      [] e.type = "PeerDisconnected" ->
           <<[type |-> "ContactOffline", contact_id |-> e.peer_id]>>
      [] e.type = "MessageReceived" /\ e.message.type = "ContactRequest" ->
           <<[type |-> "ContactRequestReceived",
              contact_id |-> e.peer_id,
              display_name |-> e.message.display_name,
              message |-> e.message.message]>>
      [] OTHER -> <<>>

RECURSIVE CausedByAll(_)
CausedByAll(events) ==
    IF events = <<>>
    THEN <<>>
    ELSE CausedBy(Head(events)) \o CausedByAll(Tail(events))

\* C37: the ChatEvents network_event_loop has sent, with the one it is
\* sending, are those its NetworkEvents cause, in the order of the
\* NetworkEvents: ContactOnline, ContactOffline and ContactRequestReceived
\* and nothing for any other event or message; chat_rx yields them in that
\* order.
C37_ChatEventsFollowNetworkEvents ==
    /\ hist.sent \o (IF evloop.pc = "send" THEN <<evloop.event>> ELSE <<>>)
           = CausedByAll(hist.received)
    /\ Len(chatq) <= Len(hist.sent)
    /\ chatq = SubSeq(hist.sent, Len(hist.sent) - Len(chatq) + 1, Len(hist.sent))

\* a ContactRequest and then a connecting peer have each caused their
\* ChatEvent, in that order
C37_Witness ==
    /\ Len(hist.received) = 2
    /\ hist.received[1].type = "MessageReceived"
    /\ hist.received[2].type = "PeerConnected"
    /\ Len(hist.sent) = 2
    /\ hist.sent[1].type = "ContactRequestReceived"
    /\ hist.sent[2].type = "ContactOnline"

(***************************************************************************)
(* The message-list specification: a SecureStorage is created, messages    *)
(* are stored under their conversations with store_message, and            *)
(* get_messages lists a conversation up to a limit.  Identifiers and       *)
(* timestamps are independent: the message stored under the lowest key may *)
(* carry the latest timestamp.                                             *)
(***************************************************************************)
ConversationIds == {<<"id", <<"conversation", c>>>> : c \in 1..NConversations}
MessageIds == {<<"id", <<"message", i>>>> : i \in 1..NMessageIds}
Timestamps == 1..NTimestamps
Limits == 0..MaxLimit

\* a LocalMessage with its timestamp
TimedMessage(conversation_id, id, timestamp) ==
    [id |-> id,
     conversation_id |-> conversation_id,
     sender_id |-> "self",
     is_outgoing |-> TRUE,
     content |-> [type |-> "Text", text |-> "hello"],
     timestamp |-> timestamp,
     sent |-> FALSE, delivered |-> FALSE, read |-> FALSE,
     reply_to |-> None]

StoreLocalMessage(message, io_ok) ==
    /\ store # None
    /\ rng + 2 <= MaxStoreDraws
    /\ LET r == store_message(store.some, db, message, Rand(rng), Rand(rng + 1), io_ok)
           k == MessageKey(message.conversation_id, message.id)
       IN  /\ db' = r.db
           /\ written' = IF r.res.ok
                         THEN [o \in DOMAIN written \cup {k} |->
                                 IF o = k
                                 THEN [value |-> message, salt |-> FALSE, cut |-> None]
                                 ELSE written[o]]
                         ELSE written
    /\ rng' = rng + 2
    /\ UNCHANGED <<store, read, chat, last, account, createdKeys, closed>>
    /\ UNCHANGED <<msgVars, ids, sealVars, signVars, ratchetVars, sessVars, netVars, app, convVars, startVars, runVars>>

\* the messages stored under a conversation, in key order
Held(conversation_id) ==
    LET keys == KeysInOrder({k \in DOMAIN written : k[2][1] = conversation_id})
    IN  [j \in 1..Len(keys) |-> written[keys[j]].value]

GetMessages(conversation_id, limit) ==
    /\ store # None
    /\ read' = [conversation_id |-> conversation_id,
                limit |-> limit,
                held |-> Held(conversation_id),
                res |-> get_messages(store.some, db, conversation_id, limit)]
    /\ UNCHANGED <<rng, store, written, appVars>>
    /\ UNCHANGED <<msgVars, ids, sealVars, signVars, ratchetVars, sessVars, netVars, app, convVars, startVars, runVars>>

NextMessages ==
    \/ \E password \in Passwords : CreateStore(password)
    \/ \E c \in ConversationIds, i \in MessageIds, t \in Timestamps, io_ok \in BOOLEAN :
         StoreLocalMessage(TimedMessage(c, i, t), io_ok)
    \/ \E c \in ConversationIds, limit \in Limits : GetMessages(c, limit)

SpecMessages == Init /\ [][NextMessages]_vars

(***************************************************************************)
(* Claims about get_messages, checked under SpecMessages.                  *)
(***************************************************************************)
\* C39: get_messages(conversation, limit) returns at most limit messages,
\* each stored under that conversation, in ascending timestamp order; and
\* the messages returned are the first limit of the conversation in store
\* key order (all of them when it holds no more than limit), whatever their
\* timestamps.
C39_GetMessagesFirstLimitByKey ==
    read # None =>
        LET n == IF read.limit < Len(read.held) THEN read.limit ELSE Len(read.held)
        IN  /\ read.res.ok
            /\ Len(read.res.val) <= read.limit
            /\ \A j \in 1..Len(read.res.val) :
                 read.res.val[j].conversation_id = read.conversation_id
            /\ \A i, j \in 1..Len(read.res.val) :
                 i < j => read.res.val[i].timestamp <= read.res.val[j].timestamp
            /\ Len(read.res.val) = n
            /\ {read.res.val[j] : j \in 1..Len(read.res.val)}
                 = {read.held[j] : j \in 1..n}

\* what get_messages does return: the empty list when the limit is 0 or the
\* conversation holds nothing, and otherwise the error of the first entry
GetMessagesObserved ==
    read # None =>
        read.res = IF read.limit = 0 \/ read.held = <<>>
                   THEN Ok(<<>>)
                   ELSE Err(<<"Failed to deserialize message",
                              "DeserializeAnyNotSupported">>)
====
